---- MODULE Spec2Model ----
(***************************************************************************)
(* Model of pytoolkit's data generator (src/pytoolkit/generator.py):       *)
(* GeneratorContext, the index/seed scheduler (_flow_batch and             *)
(* _flow_instance), the per-sample work of the worker pool (_work,         *)
(* _transform), batch assembly (_get_result) and the mixup combinator.     *)
(***************************************************************************)
EXTENDS Integers, Sequences, FiniteSets, TLC

(***************************************************************************)
(* Bounds of the model.                                                    *)
(***************************************************************************)
\* largest sample count (len(X)) of a dataset
MaxData == 3
\* largest batch_size passed to flow
MaxBatch == 2
\* seeds are drawn from 0 .. SeedRange-1 (randint(0, 2 ** 31) in the code)
SeedRange == 2
\* labels are 0 .. MaxLabel in half units (0, 0.5, 1, ...)
MaxLabel == 2
\* longest operator pipeline run on a single sample
MaxOps == 2
\* longest operator pipeline run by a pool of concurrent workers
PoolOps == 1

(***************************************************************************)
(* Python values.  An optional value is a sequence: <<>> is None and <<v>>  *)
(* is the value v.                                                         *)
(***************************************************************************)
None == <<>>
Some(v) == <<v>>
IsNone(o) == o = <<>>
Val(o) == o[1]

Seeds == 0 .. (SeedRange - 1)

\* np.arange(n): the array 0, 1, ..., n-1
Arange(n) == [i \in 1 .. n |-> i - 1]

\* all arrays of length n over the set S
Arrays(S, n) == [1 .. n -> S]

\* mutant: every position drawn from the array on its own
ShufflesDrawn(arr) == Arrays({arr[i] : i \in DOMAIN arr}, Len(arr))

\* the orders random_state.shuffle can leave an array in
Shuffles(arr) ==
  {p \in Arrays({arr[i] : i \in DOMAIN arr}, Len(arr)) :
      \A i, j \in DOMAIN p : i # j => p[i] # p[j]}

Min(a, b) == IF a <= b THEN a ELSE b

RECURSIVE SumSeq(_)
SumSeq(s) == IF s = <<>> THEN 0 ELSE Head(s) + SumSeq(Tail(s))

RECURSIVE Concat(_)
Concat(ss) == IF ss = <<>> THEN <<>> ELSE Head(ss) \o Concat(Tail(ss))

VARIABLES
  ctx,            \* the GeneratorContext: the arguments of flow
  flow_steps,     \* the step count flow returned (None before flow returns)
  fb_pc,          \* where the _flow_batch generator stands
  indices,        \* the index array of the running lap
  seeds,          \* the seeds drawn for the running lap
  pos,            \* items (shuffled) or chunks (unshuffled) of the lap consumed
  y_batch,        \* balanced mode: the classes drawn for the slots of the batch
  batch_indices,  \* the batch being filled or just yielded: its indices
  batch_seeds,    \* the batch being filled or just yielded: its seeds
  yielded,        \* TRUE while _flow_batch is suspended at a yield
  lap_out,        \* the index batches yielded so far in the running lap
  prev_lap,       \* unshuffled mode: the index batches of the lap before
  pulled,         \* shuffled mode: pairs pulled from _flow_instance, modulo batch_size
  gen_cls,        \* the class of the generator object constructed
  operators,      \* Generator.operators: the pipeline
  gen_pc,         \* where the _generator generator stands
  pool,           \* the tasks of the running batch, one per slot
  done_order,     \* the slots in the order their tasks completed
  out,            \* the batch _generator yielded (None if none)
  mix_pc,         \* where the mixup generator stands
  b1,             \* mixup: the batch taken from gen1 (None if none)
  b2,             \* mixup: the batch taken from gen2 (None if none)
  m,              \* mixup: the mixing coefficient drawn, in quarters (None if none)
  mix_out,        \* mixup: the batch yielded (None if none)
  gate_rand,      \* the RandomState handed to do_augmentation
  gate_p,         \* the probability of the last do_augmentation call, in quarters
  gate_ret,       \* the value the last do_augmentation call returned
  img,            \* transform: the working sample [x, y, w, rand]
  img_log,        \* image operators: the operators applied, each with its input
  er,             \* Random Erasing: the state of the search loop
  profile,        \* Generator.profile
  profile_data,   \* Generator.profile_data: class name -> accumulated time
  seq             \* the GeneratorSequence object, and its call in progress

sched_rest == <<flow_steps, fb_pc, indices, seeds, pos, y_batch,
                batch_indices, batch_seeds, yielded, lap_out, prev_lap, pulled>>

sched_vars == <<ctx, sched_rest>>

work_vars == <<gen_cls, operators, gen_pc, pool, done_order, out>>

mix_vars == <<mix_pc, b1, b2, m, mix_out>>

gate_vars == <<gate_rand, gate_p, gate_ret>>

img_vars == <<img, img_log, er>>

prof_vars == <<profile, profile_data>>

seq_vars == <<seq>>

vars == <<sched_vars, work_vars, mix_vars, gate_vars, img_vars, prof_vars, seq_vars>>

(***************************************************************************)
(* GeneratorContext                                                        *)
(***************************************************************************)
\* sklearn's type_of_target on a 1-d label array: float labels with a
\* non-integer value are 'continuous', integer class ids are
\* 'binary'/'multiclass'.  Labels are in half units: odd = non-integer.
type_of_target(y) ==
  IF \E i \in DOMAIN y : y[i] % 2 = 1 THEN "continuous" ELSE "multiclass"

\* GeneratorContext.y_classes
y_classes(c) ==
  LET y == Val(c.y) IN
  IF type_of_target(y) = "continuous"
  THEN [i \in DOMAIN y |-> IF y[i] >= 1 THEN 1 ELSE 0]
  ELSE [i \in DOMAIN y |-> y[i] \div 2]

\* np.unique: the distinct values of an array, as a set
unique(arr) == {arr[i] : i \in DOMAIN arr}

\* np.bincount: occurrences of each value 0 .. max(arr)
bincount(arr) ==
  LET top == CHOOSE u \in unique(arr) : \A v \in unique(arr) : v <= u IN
  [k \in 1 .. (top + 1) |-> Cardinality({i \in DOMAIN arr : arr[i] = k - 1})]

SeqMin(s) == CHOOSE u \in unique(s) : \A v \in unique(s) : u <= v

\* mutant: the unbalanced step count rounded down
ctx_steps_floor(c) ==
  IF c.balanced
  THEN LET bc == bincount(y_classes(c)) IN SeqMin(bc) * Len(bc)
  ELSE c.data_count \div c.batch_size

\* GeneratorContext.steps_per_epoch (the property flow returns)
ctx_steps_per_epoch(c) ==
  IF c.balanced
  THEN LET bc == bincount(y_classes(c)) IN SeqMin(bc) * Len(bc)
  ELSE (c.data_count + c.batch_size - 1) \div c.batch_size

\* mutant: one more than the rounded-down quotient
steps_floor_plus_one(data_count, batch_size) ==
  data_count \div batch_size + 1

\* Generator.steps_per_epoch (the static method the unshuffled scheduler uses)
steps_per_epoch(data_count, batch_size) ==
  (data_count + batch_size - 1) \div batch_size

\* len(arr[0]) if isinstance(arr, list) else len(arr).  A context holds a
\* collection given as a list of arrays (multiple inputs or outputs) by its
\* first array, arr[0], and the flag X_list or y_list; the other arrays of
\* the list are read by no assertion and by no scheduler.
data_len(arr, is_list) == Len(arr)

\* mutant: the weights are not compared with the sample count
ctx_valid_no_weights(c) ==
  /\ c.data_count = data_len(c.X, c.X_list)
  /\ (~IsNone(c.y) => data_len(Val(c.y), c.y_list) = c.data_count)
  /\ (c.balanced => c.shuffle)

\* the assertions of GeneratorContext.__init__
ctx_valid(c) ==
  /\ c.data_count = data_len(c.X, c.X_list)
  /\ (~IsNone(c.y) => data_len(Val(c.y), c.y_list) = c.data_count)
  /\ (~IsNone(c.weights) => Len(Val(c.weights)) = c.data_count)
  /\ (c.balanced => c.shuffle)

\* flow raises while computing the balanced step count when there is no
\* label array or no sample (bincount/min of nothing), or when the labels
\* are a list of arrays (type_of_target knows no class ids for it)
ctx_steps_defined(c) ==
  c.balanced => (~IsNone(c.y) /\ ~c.y_list /\ c.data_count >= 1)

\* the arguments flow can be called with
FlowArgs ==
  {c \in [data_count : 0 .. MaxData, batch_size : 1 .. MaxBatch,
          shuffle : BOOLEAN, balanced : BOOLEAN,
          X : {Arange(n) : n \in 0 .. MaxData},
          y : {None} \cup {Some(l) : l \in UNION {Arrays(0 .. MaxLabel, n) : n \in 0 .. MaxData}},
          weights : {None}, data_augmentation : {"False"},
          X_list : {FALSE}, y_list : {FALSE}] :
     /\ Len(c.X) = c.data_count
     /\ (~IsNone(c.y) => Len(Val(c.y)) = c.data_count)
     /\ (~c.balanced => IsNone(c.y))}

\* the sample count of the datasets the calls of flow are drawn from
FlowData == 2

\* a collection of n values v, as one array or as a list of arrays
Collections(n, v) ==
  {[list |-> l, arr |-> [i \in 1 .. n |-> v]] : l \in BOOLEAN}

\* every call of flow: X and y as an array or as a list of arrays, y and
\* weights optional and of any length, every combination of the flags
FlowCalls ==
  UNION {
    {[data_count |-> n, batch_size |-> b, shuffle |-> sh, balanced |-> bal,
      X |-> cx.arr, X_list |-> cx.list,
      y |-> cy.arr, y_list |-> cy.list,
      weights |-> w, data_augmentation |-> "False"] :
       b \in 1 .. MaxBatch, sh \in BOOLEAN, bal \in BOOLEAN,
       cx \in Collections(n, 0),
       cy \in {[list |-> FALSE, arr |-> None]} \cup
              UNION {{[list |-> c.list, arr |-> Some(c.arr)] : c \in Collections(k, 0)} :
                       k \in 0 .. FlowData}
              \cup {[list |-> FALSE, arr |-> Some(l)] : l \in Arrays({0, 2}, n)},
       w \in {None} \cup {Some([i \in 1 .. k |-> 1]) : k \in 0 .. FlowData}} :
    n \in 0 .. FlowData}

(***************************************************************************)
(* np.array_split(ary, sections): sections chunks, the first               *)
(* len(ary) % sections of them one element longer than the others.         *)
(***************************************************************************)
section_size(total, sections, k) ==
  (total \div sections) + (IF k <= total % sections THEN 1 ELSE 0)

div_point(total, sections, k) ==
  SumSeq([j \in 1 .. k |-> section_size(total, sections, j)])

\* mutant: equal sections of len(ary) // sections elements, the rest dropped
array_split_floor(ary, sections) ==
  [k \in 1 .. sections |->
     SubSeq(ary, (k - 1) * (Len(ary) \div sections) + 1,
                 k * (Len(ary) \div sections))]

array_split(ary, sections) ==
  [k \in 1 .. sections |->
     SubSeq(ary, div_point(Len(ary), sections, k - 1) + 1,
                 div_point(Len(ary), sections, k))]

\* mutant: the mask ignored, any element may be drawn
masked_any(arr, classes, y) == {arr[i] : i \in DOMAIN arr}

\* indices[y_classes == y]: the elements of arr where the mask holds, as a set
masked(arr, classes, y) == {arr[i] : i \in {j \in DOMAIN arr : classes[j] = y}}

\* the arrays whose k-th element is drawn from sets[k]
RECURSIVE Product(_)
Product(sets) ==
  IF sets = <<>> THEN {<<>>}
  ELSE {<<h>> \o t : h \in Head(sets), t \in Product(Tail(sets))}

\* seeds[batch_indices]
take(arr, ixs) == [k \in DOMAIN ixs |-> arr[ixs[k] + 1]]

(***************************************************************************)
(* The scheduler                                                           *)
(***************************************************************************)
\* no mixup generator is running
MixIdle ==
  /\ mix_pc = "idle"
  /\ b1 = None
  /\ b2 = None
  /\ m = None
  /\ mix_out = None

\* do_augmentation has not been called
GateIdle ==
  /\ gate_rand = 0
  /\ gate_p = 0
  /\ gate_ret = "unset"

\* Generator.__init__ with profile=False: nothing is timed
ProfIdle ==
  /\ profile = FALSE
  /\ profile_data = [k \in {} |-> 0]

\* no GeneratorSequence has been built
SeqIdle ==
  seq = [pc |-> "none", generator |-> "", steps |-> 0, it |-> None,
         index |-> 0, served |-> 0, created |-> 0, ret |-> None]

\* no image operator is being applied
ImgIdle ==
  /\ img = [x |-> <<>>, y |-> None, w |-> None, rand |-> 0]
  /\ img_log = <<>>
  /\ er = [pc |-> "idle", tries |-> 0, ew |-> 0, eh |-> 0, ex |-> 0, ey |-> 0]

\* the generator's pipeline and worker pool before any batch is requested
WorkIdle ==
  /\ gen_cls = "Generator"
  /\ operators = <<>>
  /\ gen_pc = "idle"
  /\ pool = <<>>
  /\ done_order = <<>>
  /\ out = None

SchedIdle ==
  /\ flow_steps = None
  /\ fb_pc = "new"
  /\ indices = <<>>
  /\ seeds = <<>>
  /\ pos = 0
  /\ y_batch = <<>>
  /\ batch_indices = <<>>
  /\ batch_seeds = <<>>
  /\ yielded = FALSE
  /\ lap_out = <<>>
  /\ prev_lap = <<>>
  /\ pulled = 0

InitSched ==
  /\ ctx \in FlowArgs
  /\ SchedIdle
  /\ WorkIdle
  /\ MixIdle
  /\ GateIdle
  /\ ProfIdle
  /\ SeqIdle
  /\ ImgIdle

\* flow is called with any arguments
InitFlow ==
  /\ ctx \in FlowCalls
  /\ SchedIdle
  /\ WorkIdle
  /\ MixIdle
  /\ GateIdle
  /\ ProfIdle
  /\ SeqIdle
  /\ ImgIdle

\* Generator.flow: builds the context, creates the generator (not started)
\* and evaluates ctx.steps_per_epoch
Flow ==
  /\ fb_pc = "new"
  /\ IF ctx_valid(ctx) /\ ctx_steps_defined(ctx)
     THEN /\ fb_pc' = "created"
          /\ flow_steps' = Some(ctx_steps_per_epoch(ctx))
     ELSE /\ fb_pc' = "flow_raised"
          /\ flow_steps' = None
  /\ UNCHANGED <<ctx, indices, seeds, pos, y_batch, batch_indices,
                 batch_seeds, yielded, lap_out, prev_lap, pulled>>
  /\ UNCHANGED <<work_vars, mix_vars, gate_vars, img_vars, prof_vars, seq_vars>>

\* first next() on _flow_batch: runs to the top of the branch's loop
FlowBatchEnter ==
  /\ fb_pc = "created"
  /\ indices' = Arange(ctx.data_count)
  /\ fb_pc' = IF ctx.balanced THEN "balanced"
              ELSE IF ctx.shuffle THEN "shuffled" ELSE "unshuffled"
  /\ pos' = IF ctx.balanced \/ ctx.shuffle THEN ctx.data_count ELSE 0
  /\ UNCHANGED <<ctx, flow_steps, seeds, y_batch, batch_indices,
                 batch_seeds, yielded, lap_out, prev_lap, pulled>>
  /\ UNCHANGED <<work_vars, mix_vars, gate_vars, img_vars, prof_vars, seq_vars>>

\* the consumer's next() resumes the generator after a yield.  In the
\* shuffled branch the two lists are reset (lines 130-131); in the other
\* branches the locals of the finished pass are dead (every one of them is
\* reassigned before it is read again) and are dropped here.
Resume ==
  /\ fb_pc \in {"balanced", "shuffled", "unshuffled"}
  /\ yielded
  /\ yielded' = FALSE
  /\ batch_indices' = <<>>
  /\ batch_seeds' = <<>>
  /\ y_batch' = <<>>
  /\ UNCHANGED <<ctx, flow_steps, fb_pc, indices, seeds, pos, lap_out, prev_lap, pulled>>
  /\ UNCHANGED <<work_vars, mix_vars, gate_vars, img_vars, prof_vars, seq_vars>>

\* balanced branch: one pass of the while loop, up to the yield
BalancedNext ==
  /\ fb_pc = "balanced"
  /\ ~yielded
  /\ LET yc == y_classes(ctx)
         unique_classes == unique(yc)
     IN \E yb \in Arrays(unique_classes, ctx.batch_size) :
        \E bi \in Product([k \in DOMAIN yb |-> masked(indices, yc, yb[k])]) :
        \E sd \in Arrays(Seeds, Len(bi)) :
          /\ y_batch' = yb
          /\ batch_indices' = bi
          /\ batch_seeds' = sd
  /\ yielded' = TRUE
  /\ UNCHANGED <<ctx, flow_steps, fb_pc, indices, seeds, pos, lap_out, prev_lap, pulled>>
  /\ UNCHANGED <<work_vars, mix_vars, gate_vars, img_vars, prof_vars, seq_vars>>

\* mutant: the lap restarts with empty lists, dropping the leftover pairs
FlowInstanceLapDrop ==
  /\ fb_pc = "shuffled"
  /\ ~yielded
  /\ pos = Len(indices)
  /\ indices' \in (IF ctx.shuffle THEN Shuffles(indices) ELSE {indices})
  /\ seeds' \in Arrays(Seeds, Len(indices))
  /\ pos' = 0
  /\ lap_out' = <<>>
  /\ batch_indices' = <<>>
  /\ batch_seeds' = <<>>
  /\ UNCHANGED <<ctx, flow_steps, fb_pc, y_batch, yielded, prev_lap, pulled>>
  /\ UNCHANGED <<work_vars, mix_vars, gate_vars, img_vars, prof_vars, seq_vars>>

\* _flow_instance: top of its while loop (shuffle, draw the lap's seeds)
FlowInstanceLap ==
  /\ fb_pc = "shuffled"
  /\ ~yielded
  /\ pos = Len(indices)
  /\ indices' \in (IF ctx.shuffle THEN Shuffles(indices) ELSE {indices})
  /\ seeds' \in Arrays(Seeds, Len(indices))
  /\ pos' = 0
  /\ lap_out' = <<>>
  /\ UNCHANGED <<ctx, flow_steps, fb_pc, y_batch, batch_indices, batch_seeds,
                 yielded, prev_lap, pulled>>
  /\ UNCHANGED <<work_vars, mix_vars, gate_vars, img_vars, prof_vars, seq_vars>>

\* shuffled branch: one pass of the for loop over _flow_instance
FlowInstancePull ==
  /\ fb_pc = "shuffled"
  /\ ~yielded
  /\ pos < Len(indices)
  /\ batch_indices' = Append(batch_indices, indices[pos + 1])
  /\ batch_seeds' = Append(batch_seeds, seeds[pos + 1])
  /\ yielded' = (Len(batch_indices') = ctx.batch_size)
  /\ pos' = pos + 1
  /\ lap_out' = Append(lap_out, <<indices[pos + 1]>>)
  /\ pulled' = (pulled + 1) % ctx.batch_size
  /\ UNCHANGED <<ctx, flow_steps, fb_pc, indices, seeds, y_batch, prev_lap>>
  /\ UNCHANGED <<work_vars, mix_vars, gate_vars, img_vars, prof_vars, seq_vars>>

\* unshuffled branch: up to the next yield, or to array_split's ValueError
\* when steps is 0
UnshuffledNext ==
  /\ fb_pc = "unshuffled"
  /\ ~yielded
  /\ LET steps == steps_per_epoch(ctx.data_count, ctx.batch_size)
         newlap == pos = 0
     IN \E sd \in (IF newlap THEN Arrays(Seeds, Len(indices)) ELSE {seeds}) :
        IF steps <= 0
        THEN /\ fb_pc' = "raised"
             /\ seeds' = sd
             /\ UNCHANGED <<pos, batch_indices, batch_seeds, yielded,
                            lap_out, prev_lap, pulled>>
        ELSE LET chunk == array_split(indices, steps)[pos + 1] IN
             /\ seeds' = sd
             /\ batch_indices' = chunk
             /\ batch_seeds' = take(sd, chunk)
             /\ yielded' = TRUE
             /\ pos' = (pos + 1) % steps
             /\ lap_out' = Append(IF newlap THEN <<>> ELSE lap_out, chunk)
             /\ prev_lap' = IF newlap THEN lap_out ELSE prev_lap
             /\ fb_pc' = fb_pc
  /\ UNCHANGED <<ctx, flow_steps, indices, y_batch, pulled>>
  /\ UNCHANGED <<work_vars, mix_vars, gate_vars, img_vars, prof_vars, seq_vars>>

NextSched ==
  \/ Flow
  \/ FlowBatchEnter
  \/ Resume
  \/ BalancedNext
  \/ FlowInstanceLap
  \/ FlowInstancePull
  \/ UnshuffledNext

SpecSched == InitSched /\ [][NextSched]_vars

SpecFlow == InitFlow /\ [][NextSched]_vars

\* the scheduler under a consumer that keeps requesting batches: a step
\* that can be taken is eventually taken
SpecSchedFair == InitSched /\ [][NextSched]_vars /\ WF_vars(NextSched)

(***************************************************************************)
(* generator_sequence: the GeneratorSequence object over a stream.  A      *)
(* batch of the stream is told by the indices scheduled for it.            *)
(***************************************************************************)
\* the indexed accesses served by one object
SeqAccesses == 3

\* the datasets the stream is built over
SeqArgs == {c \in FlowArgs : c.data_count \in {1, 2}}

InitSeq ==
  /\ ctx \in SeqArgs
  /\ SchedIdle
  /\ WorkIdle
  /\ MixIdle
  /\ GateIdle
  /\ ProfIdle
  /\ SeqIdle
  /\ ImgIdle

\* generator_sequence(generator, steps) with the step count flow returned;
\* generator is the stream flow returned (a generator object) or a function
\* that returns it
GeneratorSequence ==
  /\ fb_pc = "created"
  /\ seq.pc = "none"
  /\ \E g \in {"generator", "callable"} :
       seq' = [seq EXCEPT !.pc = "built", !.generator = g, !.steps = Val(flow_steps),
                          !.it = None]
  /\ UNCHANGED <<sched_vars, work_vars, mix_vars, gate_vars, img_vars, prof_vars>>

\* GeneratorSequence.__len__
seq_len(sq) == sq.steps

\* GeneratorSequence.__getitem__(index) up to next(self.it): the assertion
\* on index, self.generator() when no iterator is cached (a generator
\* object is not callable: TypeError), and the resumption of the stream
GetItem ==
  /\ seq.pc \in {"built", "returned", "raised"}
  /\ seq.served < SeqAccesses
  /\ \E index \in -1 .. seq.steps :
       IF ~(0 <= index /\ index < seq.steps)
       THEN /\ seq' = [seq EXCEPT !.pc = "raised", !.index = index, !.ret = None]
            /\ UNCHANGED <<yielded, batch_indices, batch_seeds, y_batch>>
       ELSE IF IsNone(seq.it) /\ seq.generator = "generator"
       THEN /\ seq' = [seq EXCEPT !.pc = "raised", !.index = index, !.ret = None]
            /\ UNCHANGED <<yielded, batch_indices, batch_seeds, y_batch>>
       ELSE /\ seq' = [seq EXCEPT !.pc = "calling", !.index = index, !.ret = None,
                                  !.it = Some("stream"),
                                  !.created = IF IsNone(seq.it) THEN @ + 1 ELSE @]
            /\ yielded' = FALSE
            /\ batch_indices' = <<>>
            /\ batch_seeds' = <<>>
            /\ y_batch' = <<>>
  /\ UNCHANGED <<ctx, flow_steps, fb_pc, indices, seeds, pos, lap_out, prev_lap, pulled>>
  /\ UNCHANGED <<work_vars, mix_vars, gate_vars, img_vars, prof_vars>>

\* the stream runs, inside next(self.it), up to its next yield
SeqStreamStep ==
  /\ seq.pc = "calling"
  /\ \/ FlowBatchEnter
     \/ BalancedNext
     \/ FlowInstanceLap
     \/ FlowInstancePull
     \/ UnshuffledNext

\* GeneratorSequence.__getitem__: next(self.it) returns the batch yielded
GetItemReturn ==
  /\ seq.pc = "calling"
  /\ yielded
  /\ seq' = [seq EXCEPT !.pc = "returned", !.ret = Some(batch_indices), !.served = @ + 1]
  /\ UNCHANGED <<sched_vars, work_vars, mix_vars, gate_vars, img_vars, prof_vars>>

NextSeq ==
  \/ Flow
  \/ GeneratorSequence
  \/ GetItem
  \/ SeqStreamStep
  \/ GetItemReturn

SpecSeq == InitSeq /\ [][NextSeq]_vars

(***************************************************************************)
(* Operators and the per-sample work                                       *)
(***************************************************************************)
\* Python truth of a data_augmentation value ("True", "False" or "None")
Truthy(v) == v = "True"

\* np.random.RandomState: the state is 0 .. 7, rand() steps it and returns
\* state / 8, a float in [0, 1)
RandStates == 0 .. 7

rand_next(s) == (5 * s + 3) % 8

\* mutant: a RandomState seeded from the OS, whatever the scheduled seed
RandomStatesUnseeded(seed) == RandStates

\* np.random.RandomState(seed): the states it can start in
RandomStates(seed) == {seed % 8}

\* probabilities are in quarters: 4 is probability 1
Probabilities == 0 .. 8

\* mutant: the gate ignores data_augmentation
do_augmentation_always(aug, rand, probability) ==
  IF probability >= 4 THEN [ret |-> "True", rand |-> rand]
  ELSE LET r == rand_next(rand) IN
       [ret |-> IF r * 4 <= probability * 8 THEN "True" ELSE "False", rand |-> r]

\* GeneratorContext.do_augmentation: the value returned and the RNG state left
\* (`and`/`or` short-circuit: rand.rand() is drawn only when it is needed)
do_augmentation(aug, rand, probability) ==
  IF ~Truthy(aug) THEN [ret |-> aug, rand |-> rand]
  ELSE IF probability >= 4 THEN [ret |-> "True", rand |-> rand]
  ELSE LET r == rand_next(rand) IN
       [ret |-> IF r * 4 <= probability * 8 THEN "True" ELSE "False", rand |-> r]

\* a label that is one number, and a label that is a vector of numbers
Scalar(v) == [cls |-> "int", v |-> v]

Vector(v) == [cls |-> "ndarray", v |-> v]

\* the operators a pipeline is built from: [cls, process, probability]
Op(cls, process, probability) ==
  [cls |-> cls, process |-> process, probability |-> probability]

\* operators used by the worker pool specification
PoolOperators ==
  {Op("CustomAugmentation", "jitter", 2),
   Op("CustomOperator", "drop_y", 4)}

\* operators used by the failing-sample specification: one that raises for
\* some samples and one whose result fails the assertions of _work
FailOperators ==
  {Op("CustomOperator", "reject_odd", 4),
   Op("CustomOperator", "drop_y", 4)}

\* operators used by the single-sample specification
Operators ==
  PoolOperators \cup
  {Op("ProcessInput", "func", 4),
   Op("ProcessOutput", "func", 4),
   Op("CustomAugmentation", "jitter", 4),
   Op("CustomOperator", "set_y", 4),
   Op("CustomOperator", "drop_w", 4)}

\* all pipelines of at most n operators from the set S
Pipelines(S, n) == UNION {Arrays(S, k) : k \in 0 .. n}

\* the func of ProcessInput (a preprocessing of x)
input_func(x) == (2 * x + 1) % 16

\* the func of ProcessOutput (an encoding of y)
output_func(y) == y + 10

\* the process callbacks of CustomOperator and CustomAugmentation; t is the
\* working triple with the sample's RNG: [x, y, w, rand]
process(name, t, c) ==
  CASE name = "jitter" ->
         LET r == rand_next(t.rand) IN
         [t EXCEPT !.x = (t.x + r) % 16, !.rand = r]
    [] name = "drop_y" -> [t EXCEPT !.y = None]
    [] name = "set_y" -> [t EXCEPT !.y = Some(9)]
    [] name = "drop_w" -> [t EXCEPT !.w = None]
    [] name = "reject_odd" -> t
    [] name = "toss" ->
         LET r == rand_next(t.rand) IN
         [t EXCEPT !.x = IF r % 2 = 1
                         THEN [i \in 1 .. Len(t.x) |-> t.x[Len(t.x) - i + 1]]
                         ELSE t.x,
                   !.rand = r]
    [] name = "inplace" ->
         [t EXCEPT !.x = (t.x + 1) % 16,
                   !.y = IF IsNone(t.y) THEN None ELSE Some((Val(t.y) + 1) % 16)]

\* the operator writes into the arrays it is given (x += 1, y += 1) instead
\* of building new ones
in_place(op) == op.cls = "CustomOperator" /\ op.process = "inplace"

\* the execute of the operator raises an exception: the reject_odd callback
\* raises on an odd x and returns its arguments otherwise; RotationsLearning
\* asserts y == 0
raises(op, t, c) ==
  \/ op.cls = "CustomOperator" /\ op.process = "reject_odd" /\ t.x % 2 = 1
  \/ /\ op.cls = "RotationsLearning"
     /\ (IsNone(t.y) \/ Val(t.y).cls # "int" \/ Val(t.y).v # 0)

(***************************************************************************)
(* Images and bounding boxes.  An image is a sequence of rows of pixels    *)
(* (the channel axis, which no operator below touches, is left out); a     *)
(* box is <<x0, y0, x1, y1>> in tenths of the image's width and height.    *)
(***************************************************************************)
Rows(x) == Len(x)

Cols(x) == Len(x[1])

\* rgb[:, ::-1, :]
flip_lr(rgb) ==
  [r \in 1 .. Rows(rgb) |-> [q \in 1 .. Cols(rgb) |-> rgb[r][Cols(rgb) - q + 1]]]

\* rgb[::-1, :, :]
flip_tb(rgb) == [r \in 1 .. Rows(rgb) |-> rgb[Rows(rgb) - r + 1]]

\* np.swapaxes(rgb, 0, 1)
swapaxes(rgb) ==
  [r \in 1 .. Cols(rgb) |-> [q \in 1 .. Rows(rgb) |-> rgb[q][r]]]

\* the pixel rotation of RandomRotate90 (the same code as ndimage.rot90)
rot90(rgb, k) ==
  CASE k = 1 -> flip_tb(swapaxes(rgb))
    [] k = 2 -> flip_lr(flip_tb(rgb))
    [] k = 3 -> flip_lr(swapaxes(rgb))
    [] OTHER -> rgb

\* the label class with a normalized-box array the operators test for
ObjectsAnnotation(bboxes) == [cls |-> "ObjectsAnnotation", bboxes |-> bboxes]

\* y is not None and isinstance(y, ml.ObjectsAnnotation)
is_objects_annotation(y) == ~IsNone(y) /\ Val(y).cls = "ObjectsAnnotation"

\* bboxes[:, cols]
take_cols(bboxes, cols) ==
  [n \in DOMAIN bboxes |-> [q \in DOMAIN cols |-> bboxes[n][cols[q]]]]

\* 1 - bboxes
complement(bboxes) ==
  [n \in DOMAIN bboxes |-> [q \in DOMAIN bboxes[n] |-> 10 - bboxes[n][q]]]

\* mutant: the columns are complemented without being exchanged
assign_cols_same(bboxes, dst, vals) ==
  [n \in DOMAIN bboxes |->
     [q \in DOMAIN bboxes[n] |->
        IF \E j \in DOMAIN dst : dst[j] = q THEN 10 - bboxes[n][q] ELSE bboxes[n][q]]]

\* bboxes[:, dst] = vals
assign_cols(bboxes, dst, vals) ==
  [n \in DOMAIN bboxes |->
     [q \in DOMAIN bboxes[n] |->
        IF \E j \in DOMAIN dst : dst[j] = q
        THEN vals[n][CHOOSE j \in DOMAIN dst : dst[j] = q]
        ELSE bboxes[n][q]]]

\* RandomFlipLR on the boxes: y.bboxes[:, [0, 2]] = 1 - y.bboxes[:, [2, 0]]
flip_lr_bboxes(bboxes) ==
  assign_cols(bboxes, <<1, 3>>, complement(take_cols(bboxes, <<3, 1>>)))

\* mutant: the remappings of k = 1 and k = 3 exchanged
rot90_bboxes_exchanged(bboxes, k) ==
  CASE k = 3 ->
         LET b == take_cols(bboxes, <<2, 1, 4, 3>>) IN
         assign_cols(b, <<2, 4>>, complement(take_cols(b, <<4, 2>>)))
    [] k = 2 -> complement(take_cols(bboxes, <<3, 4, 1, 2>>))
    [] k = 1 ->
         LET b == take_cols(bboxes, <<2, 1, 4, 3>>) IN
         assign_cols(b, <<1, 3>>, complement(take_cols(b, <<3, 1>>)))
    [] OTHER -> bboxes

\* RandomRotate90 on the boxes
rot90_bboxes(bboxes, k) ==
  CASE k = 1 ->
         LET b == take_cols(bboxes, <<2, 1, 4, 3>>) IN
         assign_cols(b, <<2, 4>>, complement(take_cols(b, <<4, 2>>)))
    [] k = 2 -> complement(take_cols(bboxes, <<3, 4, 1, 2>>))
    [] k = 3 ->
         LET b == take_cols(bboxes, <<2, 1, 4, 3>>) IN
         assign_cols(b, <<1, 3>>, complement(take_cols(b, <<3, 1>>)))
    [] OTHER -> bboxes

\* rand.randint(0, high): the value drawn and the RNG state left
randint(rand, high) == [v |-> rand_next(rand) % high, rand |-> rand_next(rand)]

\* LoadImage.execute on an array: np.copy(x).astype(np.float32), a new array
\* of the same values (the model's pixel values are exact in float32)
load_image(x) == x

\* the thresholds RandomBinarize is built with
threshold_min == 1

threshold_max == 3

\* mutant: the threshold is drawn whatever data_augmentation is
binarize_threshold_drawn(rand, c) ==
  LET r == rand_next(rand) IN
  [v |-> 8 * threshold_min + (threshold_max - threshold_min) * r, rand |-> r]

\* the threshold of RandomBinarize.execute, in eighths, and the RNG state
\* left: rand.uniform(threshold_min, threshold_max) under augmentation, the
\* middle of the two otherwise
binarize_threshold(rand, c) ==
  IF Truthy(c.data_augmentation)
  THEN LET r == rand_next(rand) IN
       [v |-> 8 * threshold_min + (threshold_max - threshold_min) * r, rand |-> r]
  ELSE [v |-> 4 * (threshold_min + threshold_max), rand |-> rand]

\* ndimage.binarize: np.where(rgb >= threshold, 255, 0), threshold in eighths
binarize(rgb, threshold) ==
  [r \in 1 .. Rows(rgb) |->
     [q \in 1 .. Cols(rgb) |-> IF 8 * rgb[r][q] >= threshold THEN 255 ELSE 0]]

\* y = np.zeros((4,)); y[k] = 1
one_hot(k) == [i \in 1 .. 4 |-> IF i = k + 1 THEN 1 ELSE 0]

\* Operator.execute of each operator class
execute(op, t, c) ==
  CASE op.cls = "ProcessInput" -> [t EXCEPT !.x = input_func(t.x)]
    [] op.cls = "ProcessOutput" ->
         IF IsNone(t.y) THEN t
         ELSE [t EXCEPT !.y = Some(output_func(Val(t.y)))]
    [] op.cls = "CustomOperator" -> process(op.process, t, c)
    [] op.cls = "CustomAugmentation" ->
         LET g == do_augmentation(c.data_augmentation, t.rand, op.probability)
             t1 == [t EXCEPT !.rand = g.rand]
         IN IF Truthy(g.ret) THEN process(op.process, t1, c) ELSE t1
    [] op.cls = "LoadImage" -> [t EXCEPT !.x = load_image(t.x)]
    [] op.cls = "RandomFlipLR" ->
         LET g == do_augmentation(c.data_augmentation, t.rand, op.probability)
             t1 == [t EXCEPT !.rand = g.rand]
         IN IF Truthy(g.ret)
            THEN [t1 EXCEPT !.x = flip_lr(t.x),
                            !.y = IF is_objects_annotation(t.y)
                                  THEN Some(ObjectsAnnotation(flip_lr_bboxes(Val(t.y).bboxes)))
                                  ELSE t.y]
            ELSE t1
    [] op.cls = "RandomRotate90" ->
         LET g == do_augmentation(c.data_augmentation, t.rand, op.probability)
             t1 == [t EXCEPT !.rand = g.rand]
         IN IF Truthy(g.ret)
            THEN LET k == randint(g.rand, 4) IN
                 [t1 EXCEPT !.rand = k.rand,
                            !.x = rot90(t.x, k.v),
                            !.y = IF is_objects_annotation(t.y)
                                  THEN Some(ObjectsAnnotation(rot90_bboxes(Val(t.y).bboxes, k.v)))
                                  ELSE t.y]
            ELSE t1
    [] op.cls = "RandomBinarize" ->
         LET th == binarize_threshold(t.rand, c) IN
         [t EXCEPT !.rand = th.rand, !.x = binarize(t.x, th.v)]
    [] op.cls = "RotationsLearning" ->
         LET k == randint(t.rand, 4) IN
         [t EXCEPT !.rand = k.rand, !.x = rot90(t.x, k.v), !.y = Some(Vector(one_hot(k.v)))]

\* _pick_next._pick
pick(arr, ix) == IF IsNone(arr) THEN None ELSE Some(Val(arr)[ix + 1])

\* Generator._transform run to the end from operator number k + 1
RECURSIVE transform_from(_, _, _, _)
transform_from(ops, k, t, c) ==
  IF k >= Len(ops) THEN t
  ELSE transform_from(ops, k + 1, execute(ops[k + 1], t, c), c)

\* mutant: only the weight's presence is asserted
work_asserts_w_only(t, y0, w0) == IsNone(t.w) = IsNone(w0)

\* the assertions of Generator._work on the pipeline's result
work_asserts(t, y0, w0) ==
  /\ IsNone(t.y) = IsNone(y0)
  /\ IsNone(t.w) = IsNone(w0)

\* _pick_next._pick on the caller's collection: the element, which is the
\* caller's own object (a view of the array, or the label object itself)
pick_ref(arr, ix) == [val |-> pick(arr, ix), alias |-> ~IsNone(arr)]

\* mutant: the object itself is handed on
deepcopy_shared(obj) == obj

\* copy.deepcopy: an equal object sharing nothing with the original
deepcopy(obj) == [obj EXCEPT !.alias = FALSE]

\* the caller's collections after an operator wrote the working x and y in
\* place: what is written reaches the caller's element ix where the working
\* object is the caller's own
write_through(c, ix, alias, t) ==
  [c EXCEPT !.X = IF alias.x THEN [@ EXCEPT ![ix + 1] = t.x] ELSE @,
            !.y = IF alias.y /\ ~IsNone(@) /\ ~IsNone(t.y)
                  THEN Some([Val(@) EXCEPT ![ix + 1] = Val(t.y)])
                  ELSE @]

\* a task of the pool before it runs
Task(ix, seed) ==
  [pc |-> "pending", ix |-> ix, seed |-> seed,
   t |-> [x |-> 0, y |-> None, w |-> None, rand |-> 0],
   y0 |-> None, w0 |-> None, op |-> 0, broke |-> FALSE,
   alias |-> [x |-> FALSE, y |-> FALSE], ran |-> <<>>,
   timed |-> <<>>, got |-> None]

\* _get_result._get (single input, single output): the stacked array
get(arr) == arr

\* mutant: the results in the order the tasks completed
parallel_by_completion(tasks, order) ==
  [k \in DOMAIN order |-> tasks[order[k]].t]

\* parallel(batch): the tasks' results in the order the tasks were submitted
parallel(tasks, order) == [k \in DOMAIN tasks |-> tasks[k].t]

\* _get_result's assertion: no weights without labels
get_result_asserts(c) == IsNone(c.y) => IsNone(c.weights)

\* _get_result: a bare array, a 2-tuple or a 3-tuple
get_result(c, results) ==
  LET rx == [k \in DOMAIN results |-> results[k].x]
      ry == [k \in DOMAIN results |-> Val(results[k].y)]
      rw == [k \in DOMAIN results |-> Val(results[k].w)]
  IN IF IsNone(c.y) THEN [kind |-> "array", items |-> <<get(rx)>>]
     ELSE IF IsNone(c.weights)
          THEN [kind |-> "tuple", items |-> <<get(rx), get(ry)>>]
          ELSE [kind |-> "tuple", items |-> <<get(rx), get(ry), rw>>]

\* the datasets of the worker specifications: two samples, with or without
\* labels and weights
WorkCtxs ==
  [data_count : {2}, batch_size : 1 .. MaxBatch,
   shuffle : {TRUE}, balanced : {FALSE},
   X : {<<1, 2>>}, y : {None, Some(<<3, 4>>)},
   weights : {None, Some(<<5, 6>>)},
   data_augmentation : {"True", "False"},
   X_list : {FALSE}, y_list : {FALSE}]

\* flow has returned and the scheduler has yielded its first batch
InitBatch(maxlen) ==
  /\ ctx_valid(ctx)
  /\ flow_steps = Some(ctx_steps_per_epoch(ctx))
  /\ fb_pc = "shuffled"
  /\ indices = Arange(ctx.data_count)
  /\ seeds = [i \in 1 .. ctx.data_count |-> 0]
  /\ pos = 0
  /\ y_batch = <<>>
  /\ \E n \in 1 .. maxlen :
       /\ ctx.batch_size = n
       /\ batch_indices \in Arrays(0 .. (ctx.data_count - 1), n)
       /\ batch_seeds \in Arrays(Seeds, n)
  /\ yielded = TRUE
  /\ lap_out = <<>>
  /\ prev_lap = <<>>
  /\ pulled = 0
  /\ gen_pc = "idle"
  /\ pool = <<>>
  /\ done_order = <<>>
  /\ out = None
  /\ MixIdle
  /\ GateIdle
  /\ SeqIdle
  /\ ImgIdle

\* a pool of concurrent workers, short pipelines
Init ==
  /\ ctx \in WorkCtxs
  /\ gen_cls = "Generator"
  /\ operators \in Pipelines(PoolOperators, PoolOps)
  /\ InitBatch(MaxBatch)
  /\ ProfIdle

\* a pool of concurrent workers, pipelines that fail for some samples
InitFail ==
  /\ ctx \in WorkCtxs
  /\ gen_cls = "Generator"
  /\ operators \in Pipelines(FailOperators, PoolOps)
  /\ InitBatch(MaxBatch)
  /\ ProfIdle

\* one sample, long pipelines
InitSample ==
  /\ ctx \in WorkCtxs
  /\ gen_cls = "Generator"
  /\ operators \in Pipelines(Operators, MaxOps)
  /\ InitBatch(1)
  /\ ProfIdle

\* _generator: the for loop takes the scheduled batch and submits one task
\* per (index, seed) pair
Dispatch ==
  /\ gen_pc = "idle"
  /\ yielded
  /\ pool' = [k \in DOMAIN batch_indices |-> Task(batch_indices[k], batch_seeds[k])]
  /\ gen_pc' = "running"
  /\ UNCHANGED <<gen_cls, operators, done_order, out>>
  /\ UNCHANGED <<sched_vars, mix_vars, gate_vars, img_vars, prof_vars, seq_vars>>

\* mutant: the worker takes the context's random source, in whatever state
\* the scheduler and the other workers left it
WorkStartShared(i) ==
  /\ gen_pc = "running"
  /\ pool[i].pc = "pending"
  /\ \E r \in RandStates :
       LET x_ == deepcopy(pick_ref(Some(ctx.X), pool[i].ix))
           y_ == deepcopy(pick_ref(ctx.y, pool[i].ix))
       IN
       pool' = [pool EXCEPT ![i] =
                  [@ EXCEPT !.pc = "running",
                            !.t = [x |-> Val(x_.val),
                                   y |-> y_.val,
                                   w |-> pick(ctx.weights, pool[i].ix),
                                   rand |-> r],
                            !.alias = [x |-> x_.alias, y |-> y_.alias],
                            !.y0 = pick(ctx.y, pool[i].ix),
                            !.w0 = pick(ctx.weights, pool[i].ix)]]
  /\ UNCHANGED <<gen_cls, operators, gen_pc, done_order, out>>
  /\ UNCHANGED <<sched_vars, mix_vars, gate_vars, img_vars, prof_vars, seq_vars>>

\* _work: _pick_next, the private RandomState, and _transform's deep copies
WorkStart(i) ==
  /\ gen_pc = "running"
  /\ pool[i].pc = "pending"
  /\ \E r \in RandomStates(pool[i].seed) :
       LET x_ == deepcopy(pick_ref(Some(ctx.X), pool[i].ix))
           y_ == deepcopy(pick_ref(ctx.y, pool[i].ix))
       IN
       pool' = [pool EXCEPT ![i] =
                  [@ EXCEPT !.pc = "running",
                            !.t = [x |-> Val(x_.val),
                                   y |-> y_.val,
                                   w |-> pick(ctx.weights, pool[i].ix),
                                   rand |-> r],
                            !.alias = [x |-> x_.alias, y |-> y_.alias],
                            !.y0 = pick(ctx.y, pool[i].ix),
                            !.w0 = pick(ctx.weights, pool[i].ix)]]
  /\ UNCHANGED <<gen_cls, operators, gen_pc, done_order, out>>
  /\ UNCHANGED <<sched_vars, mix_vars, gate_vars, img_vars, prof_vars, seq_vars>>

\* time.time() - start_time: the time one execute took, in ticks
ElapsedTimes == {1, 2}

\* dict.get(key, 0)
dict_get(d, key) == IF key \in DOMAIN d THEN d[key] ELSE 0

\* d[key] = value
dict_set(d, key, value) ==
  [k \in DOMAIN d \cup {key} |-> IF k = key THEN value ELSE d[k]]

\* _transform: one pass of the loop over self.operators, up to the return
\* of execute and, with profile, the measurement of its time
ExecOp(i) ==
  /\ gen_pc = "running"
  /\ pool[i].pc = "running"
  /\ pool[i].op < Len(operators)
  /\ LET op == operators[pool[i].op + 1]
         t0 == pool[i].t
         t1 == execute(op, t0, ctx)
     IN IF raises(op, t0, ctx)
        THEN /\ pool' = [pool EXCEPT ![i].pc = "raised"]
             /\ UNCHANGED ctx
        ELSE /\ \E e \in (IF profile THEN ElapsedTimes ELSE {0}) :
                  pool' = [pool EXCEPT ![i] =
                           [@ EXCEPT !.t = t1, !.op = @ + 1,
                                     !.ran = Append(@, op),
                                     !.pc = IF profile THEN "timed" ELSE @,
                                     !.timed = IF profile
                                               THEN Append(@, [key |-> op.cls, elapsed |-> e])
                                               ELSE @,
                                     !.broke = @ \/ IsNone(t1.y) # IsNone(t0.y)
                                                 \/ IsNone(t1.w) # IsNone(t0.w)]]
             /\ ctx' = IF in_place(op)
                       THEN write_through(ctx, pool[i].ix, pool[i].alias, t1)
                       ELSE ctx
  /\ UNCHANGED <<gen_cls, operators, gen_pc, done_order, out>>
  /\ UNCHANGED <<sched_rest, mix_vars, gate_vars, img_vars, prof_vars, seq_vars>>

\* _work: the assertions on the result, and the return
WorkFinish(i) ==
  /\ gen_pc = "running"
  /\ pool[i].pc = "running"
  /\ pool[i].op >= Len(operators)
  /\ IF work_asserts(pool[i].t, pool[i].y0, pool[i].w0)
     THEN /\ pool' = [pool EXCEPT ![i].pc = "done"]
          /\ done_order' = Append(done_order, i)
     ELSE /\ pool' = [pool EXCEPT ![i].pc = "failed"]
          /\ done_order' = done_order
  /\ UNCHANGED <<gen_cls, operators, gen_pc, out>>
  /\ UNCHANGED <<sched_vars, mix_vars, gate_vars, img_vars, prof_vars, seq_vars>>

\* mutant: the samples whose work raised are skipped
AssembleSkipping ==
  /\ gen_pc = "running"
  /\ \A k \in DOMAIN pool : pool[k].pc \in {"done", "failed", "raised"}
  /\ IF get_result_asserts(ctx)
     THEN /\ gen_pc' = "yielded"
          /\ out' = Some(get_result(ctx, [k \in DOMAIN done_order |-> pool[done_order[k]].t]))
     ELSE /\ gen_pc' = "raised"
          /\ out' = None
  /\ UNCHANGED <<gen_cls, operators, pool, done_order>>
  /\ UNCHANGED <<sched_vars, mix_vars, gate_vars, img_vars, prof_vars, seq_vars>>

\* _generator: every task returned; _get_result assembles the batch, which is
\* yielded (or its assertion on weights without labels fails)
Assemble ==
  /\ gen_pc = "running"
  /\ \A k \in DOMAIN pool : pool[k].pc = "done"
  /\ IF get_result_asserts(ctx)
     THEN /\ gen_pc' = "yielded"
          /\ out' = Some(get_result(ctx, parallel(pool, done_order)))
     ELSE /\ gen_pc' = "raised"
          /\ out' = None
  /\ UNCHANGED <<gen_cls, operators, pool, done_order>>
  /\ UNCHANGED <<sched_vars, mix_vars, gate_vars, img_vars, prof_vars, seq_vars>>

\* _generator: a task raised; parallel(batch) raises in the consumer's request
Raise ==
  /\ gen_pc = "running"
  /\ \E k \in DOMAIN pool : pool[k].pc \in {"failed", "raised"}
  /\ gen_pc' = "raised"
  /\ UNCHANGED <<gen_cls, operators, pool, done_order, out>>
  /\ UNCHANGED <<sched_vars, mix_vars, gate_vars, img_vars, prof_vars, seq_vars>>

NextWork ==
  \/ Dispatch
  \/ \E i \in DOMAIN pool : WorkStart(i)
  \/ \E i \in DOMAIN pool : ExecOp(i)
  \/ \E i \in DOMAIN pool : WorkFinish(i)
  \/ Assemble
  \/ Raise

Spec == Init /\ [][NextWork]_vars

SpecSample == InitSample /\ [][NextWork]_vars

SpecFail == InitFail /\ [][NextWork]_vars

(***************************************************************************)
(* The stream flow returns, request after request: _generator pulls a      *)
(* batch from _flow_batch, runs its samples in the pool, yields the        *)
(* result, and goes on when the consumer asks for the next batch           *)
(***************************************************************************)
\* the operators of the stream: one that draws from the sample's RandomState
\* and one that raises on an odd x
StreamOperators ==
  {Op("CustomAugmentation", "jitter", 2), Op("CustomOperator", "reject_odd", 4)}

\* the arguments of flow: two samples, every mode
StreamArgs ==
  {c \in [data_count : {2}, batch_size : 1 .. MaxBatch,
          shuffle : BOOLEAN, balanced : BOOLEAN,
          X : {<<1, 2>>}, y : {None, Some(<<0, 2>>)},
          weights : {None}, data_augmentation : {"True"},
          X_list : {FALSE}, y_list : {FALSE}] :
     /\ ctx_valid(c)
     /\ c.balanced = ~IsNone(c.y)}

\* a generator object with its pipeline, before flow is called
InitStream ==
  /\ ctx \in StreamArgs
  /\ SchedIdle
  /\ gen_cls = "Generator"
  /\ operators \in Pipelines(StreamOperators, PoolOps)
  /\ gen_pc = "idle"
  /\ pool = <<>>
  /\ done_order = <<>>
  /\ out = None
  /\ MixIdle
  /\ GateIdle
  /\ ProfIdle
  /\ SeqIdle
  /\ ImgIdle

\* _generator's for statement runs _flow_batch up to its next yield
StreamSched ==
  /\ gen_pc = "idle"
  /\ \/ FlowBatchEnter
     \/ BalancedNext
     \/ FlowInstanceLap
     \/ FlowInstancePull
     \/ UnshuffledNext

\* mutant: the consumer's next() after an exception resumes the loop
NextBatchAfterRaise ==
  /\ gen_pc \in {"yielded", "raised"}
  /\ gen_pc' = "idle"
  /\ pool' = <<>>
  /\ done_order' = <<>>
  /\ out' = None
  /\ yielded' = FALSE
  /\ batch_indices' = <<>>
  /\ batch_seeds' = <<>>
  /\ y_batch' = <<>>
  /\ UNCHANGED <<gen_cls, operators>>
  /\ UNCHANGED <<ctx, flow_steps, fb_pc, indices, seeds, pos, lap_out, prev_lap, pulled>>
  /\ UNCHANGED <<mix_vars, gate_vars, img_vars, prof_vars, seq_vars>>

\* the consumer's next() after a yield: _generator goes on with its for
\* statement, which resumes _flow_batch
NextBatch ==
  /\ gen_pc = "yielded"
  /\ gen_pc' = "idle"
  /\ pool' = <<>>
  /\ done_order' = <<>>
  /\ out' = None
  /\ yielded' = FALSE
  /\ batch_indices' = <<>>
  /\ batch_seeds' = <<>>
  /\ y_batch' = <<>>
  /\ UNCHANGED <<gen_cls, operators>>
  /\ UNCHANGED <<ctx, flow_steps, fb_pc, indices, seeds, pos, lap_out, prev_lap, pulled>>
  /\ UNCHANGED <<mix_vars, gate_vars, img_vars, prof_vars, seq_vars>>

\* the consumer's next() after an exception left _generator: the with
\* statement was left (the pool is gone) and the generator is finished, so
\* the request raises StopIteration
StopIteration ==
  /\ gen_pc \in {"raised", "finished"}
  /\ gen_pc' = "finished"
  /\ out' = None
  /\ UNCHANGED <<gen_cls, operators, pool, done_order>>
  /\ UNCHANGED <<sched_vars, mix_vars, gate_vars, img_vars, prof_vars, seq_vars>>

NextStream ==
  \/ Flow
  \/ StreamSched
  \/ NextWork
  \/ NextBatch
  \/ StopIteration

SpecStream == InitStream /\ [][NextStream]_vars

(***************************************************************************)
(* Profiling: the workers of a batch add the time of each execute to       *)
(* profile_data, a dict of the generator object that they share.  The      *)
(* statement that adds is a read of the dict followed by a write; the      *)
(* threads of the pool take their steps in any order.                      *)
(***************************************************************************)
\* the operators timed: two classes, one of which raises on an odd x
ProfileOperators ==
  {Op("ProcessInput", "func", 4), Op("CustomOperator", "reject_odd", 4)}

\* a generator built with profile=True, a pipeline of operators of one or
\* two classes, and a first batch scheduled
InitProfile ==
  /\ ctx \in WorkCtxs
  /\ ctx.data_augmentation = "True"
  /\ IsNone(ctx.weights)
  /\ gen_cls = "Generator"
  /\ operators \in Pipelines(ProfileOperators, PoolOps) \ {<<>>}
  /\ InitBatch(MaxBatch)
  /\ \A k \in DOMAIN batch_seeds : batch_seeds[k] = 0
  /\ profile = TRUE
  /\ profile_data = [k \in {} |-> 0]

\* self.profile_data.get(key, 0): the worker reads the accumulated time
ProfileGet(i) ==
  /\ gen_pc = "running"
  /\ pool[i].pc = "timed"
  /\ LET last == pool[i].timed[Len(pool[i].timed)] IN
     pool' = [pool EXCEPT ![i] =
                [@ EXCEPT !.pc = "read", !.got = Some(dict_get(profile_data, last.key))]]
  /\ UNCHANGED <<gen_cls, operators, gen_pc, done_order, out>>
  /\ UNCHANGED <<profile, profile_data>>
  /\ UNCHANGED <<sched_vars, mix_vars, gate_vars, img_vars, seq_vars>>

\* self.profile_data[key] = (the value read) + elapsed_time
ProfileSet(i) ==
  /\ gen_pc = "running"
  /\ pool[i].pc = "read"
  /\ LET last == pool[i].timed[Len(pool[i].timed)] IN
     profile_data' = dict_set(profile_data, last.key, Val(pool[i].got) + last.elapsed)
  /\ pool' = [pool EXCEPT ![i] = [@ EXCEPT !.pc = "running", !.got = None]]
  /\ UNCHANGED <<gen_cls, operators, gen_pc, done_order, out>>
  /\ UNCHANGED profile
  /\ UNCHANGED <<sched_vars, mix_vars, gate_vars, img_vars, seq_vars>>

NextProfile ==
  \/ NextWork
  \/ \E i \in DOMAIN pool : ProfileGet(i)
  \/ \E i \in DOMAIN pool : ProfileSet(i)

SpecProfile == InitProfile /\ [][NextProfile]_vars

(***************************************************************************)
(* The pipeline built by add calls, while samples are processed            *)
(***************************************************************************)
\* the add calls made on a generator object
AddCalls == 2

\* the operators added; their order matters: func makes every x odd and
\* reject_odd raises on an odd x
AddOperators ==
  {Op("ProcessInput", "func", 4), Op("CustomOperator", "reject_odd", 4)}

\* Generator.__init__ / ImageDataGenerator.__init__: the pipeline of a new object
new_operators(cls) ==
  IF cls = "ImageDataGenerator" THEN <<Op("LoadImage", "", 4)>> ELSE <<>>

\* a generator object just constructed, and flow called on it; the operators
\* draw nothing, one seed and one augmentation setting are enough
InitAdd ==
  /\ ctx \in WorkCtxs
  /\ ctx.data_augmentation = "True"
  /\ gen_cls \in {"Generator", "ImageDataGenerator"}
  /\ operators = new_operators(gen_cls)
  /\ InitBatch(MaxBatch)
  /\ ProfIdle
  /\ \A k \in DOMAIN batch_seeds : batch_seeds[k] = 0

\* mutant: the operator is put in front
AddFront ==
  /\ Len(operators) < Len(new_operators(gen_cls)) + AddCalls
  /\ \E op \in AddOperators : operators' = <<op>> \o operators
  /\ UNCHANGED <<gen_cls, gen_pc, pool, done_order, out>>
  /\ UNCHANGED <<sched_vars, mix_vars, gate_vars, img_vars, prof_vars, seq_vars>>

\* Generator.add
Add ==
  /\ Len(operators) < Len(new_operators(gen_cls)) + AddCalls
  /\ \E op \in AddOperators : operators' = Append(operators, op)
  /\ UNCHANGED <<gen_cls, gen_pc, pool, done_order, out>>
  /\ UNCHANGED <<sched_vars, mix_vars, gate_vars, img_vars, prof_vars, seq_vars>>

NextAdd ==
  \/ NextWork
  \/ Add

SpecAdd == InitAdd /\ [][NextAdd]_vars

(***************************************************************************)
(* mixup: the combinator of two batch streams                              *)
(***************************************************************************)
\* the batches a stream built by flow yields: batches of two samples whose
\* x, y and w results are 0 or 1
StreamResults(c) ==
  Arrays([x : 0 .. 1, y : {pick(c.y, 0)}, w : {pick(c.weights, 0)}, rand : {0}], 2)

StreamCtxs ==
  {c \in [data_count : {2}, batch_size : {2}, shuffle : {TRUE}, balanced : {FALSE},
          X : {<<0, 1>>}, y : {None, Some(<<0, 0>>), Some(<<1, 1>>)},
          weights : {None, Some(<<0, 0>>), Some(<<1, 1>>)},
          data_augmentation : {"False"},
          X_list : {FALSE}, y_list : {FALSE}] : get_result_asserts(c)}

FlowBatches ==
  UNION {{get_result(c, r) : r \in StreamResults(c)} : c \in StreamCtxs}

\* what else a stream can yield: the lists mixup itself yields, and tuples
\* of 1 or 4 arrays
OtherBatches ==
  {[kind |-> "list", items |-> b.items] : b \in {f \in FlowBatches : f.kind = "tuple"}}
  \cup {[kind |-> "tuple", items |-> b.items] : b \in {f \in FlowBatches : f.kind = "array"}}
  \cup {[kind |-> "tuple", items |-> <<<<0, 0>>, <<0, 0>>, <<0, 0>>, <<0, 0>>>>]}

StreamBatches == FlowBatches \cup OtherBatches

\* mutant: only the arities are compared
mixup_asserts_len_only(p1, p2) == Len(p1.items) = Len(p2.items)

\* the assertions of mixup on a pair of batches
mixup_asserts(p1, p2) ==
  /\ p1.kind = "tuple"
  /\ p2.kind = "tuple"
  /\ Len(p1.items) \in {2, 3}
  /\ Len(p2.items) \in {2, 3}
  /\ Len(p1.items) = Len(p2.items)

\* mutant: the two coefficients swapped
mix_swapped(x1, x2, k) == [e \in DOMAIN x1 |-> x1[e] * (4 - k) + x2[e] * k]

\* x1 * m + x2 * (1 - m) on arrays, m = k / 4, the result in quarters
mix(x1, x2, k) == [e \in DOMAIN x1 |-> x1[e] * k + x2[e] * (4 - k)]

\* random_state.beta(alpha, beta): a float in [0, 1], in quarters
BetaDraws == 0 .. 4

InitMixup ==
  /\ ctx \in {c \in StreamCtxs : IsNone(c.y)}
  /\ SchedIdle
  /\ WorkIdle
  /\ GateIdle
  /\ ProfIdle
  /\ SeqIdle
  /\ ImgIdle
  /\ mix_pc = "started"
  /\ b1 = None
  /\ b2 = None
  /\ m = None
  /\ mix_out = None

\* zip(gen1, gen2): next(gen1)
MixPull1 ==
  /\ mix_pc = "started"
  /\ \E p \in StreamBatches : b1' = Some(p)
  /\ mix_pc' = "pulled1"
  /\ UNCHANGED <<b2, m, mix_out>>
  /\ UNCHANGED <<sched_vars, work_vars, gate_vars, img_vars, prof_vars, seq_vars>>

\* zip(gen1, gen2): next(gen2)
MixPull2 ==
  /\ mix_pc = "pulled1"
  /\ \E p \in StreamBatches : b2' = Some(p)
  /\ mix_pc' = "pulled2"
  /\ UNCHANGED <<b1, m, mix_out>>
  /\ UNCHANGED <<sched_vars, work_vars, gate_vars, img_vars, prof_vars, seq_vars>>

\* mutant: the mixed batch is yielded as a tuple
MixBodyTuple ==
  /\ mix_pc = "pulled2"
  /\ IF mixup_asserts(Val(b1), Val(b2))
     THEN \E k \in BetaDraws :
            /\ m' = Some(k)
            /\ mix_out' = Some([kind |-> "tuple",
                                items |-> [a \in DOMAIN Val(b1).items |->
                                             mix(Val(b1).items[a], Val(b2).items[a], k)]])
            /\ mix_pc' = "yielded"
     ELSE /\ mix_pc' = "raised"
          /\ UNCHANGED <<m, mix_out>>
  /\ UNCHANGED <<b1, b2>>
  /\ UNCHANGED <<sched_vars, work_vars, gate_vars, img_vars, prof_vars, seq_vars>>

\* the body of mixup's loop: the assertions, the draw of m, the mixing and
\* the yield
MixBody ==
  /\ mix_pc = "pulled2"
  /\ IF mixup_asserts(Val(b1), Val(b2))
     THEN \E k \in BetaDraws :
            /\ m' = Some(k)
            /\ mix_out' = Some([kind |-> "list",
                                items |-> [a \in DOMAIN Val(b1).items |->
                                             mix(Val(b1).items[a], Val(b2).items[a], k)]])
            /\ mix_pc' = "yielded"
     ELSE /\ mix_pc' = "raised"
          /\ UNCHANGED <<m, mix_out>>
  /\ UNCHANGED <<b1, b2>>
  /\ UNCHANGED <<sched_vars, work_vars, gate_vars, img_vars, prof_vars, seq_vars>>

\* the consumer's next() resumes mixup after its yield; the pair, m and b
\* of the finished pass are dead (reassigned before they are read)
MixResume ==
  /\ mix_pc = "yielded"
  /\ mix_pc' = "started"
  /\ b1' = None
  /\ b2' = None
  /\ m' = None
  /\ mix_out' = None
  /\ UNCHANGED <<sched_vars, work_vars, gate_vars, img_vars, prof_vars, seq_vars>>

NextMixup ==
  \/ MixPull1
  \/ MixPull2
  \/ MixBody
  \/ MixResume

SpecMixup == InitMixup /\ [][NextMixup]_vars

(***************************************************************************)
(* do_augmentation: the augmentation gate                                  *)
(***************************************************************************)
\* the throwaway context Generator.transform builds
TransformCtx(data_augmentation) ==
  [data_count |-> 0, batch_size |-> None, shuffle |-> None, balanced |-> FALSE,
   X |-> <<>>, y |-> None, weights |-> None,
   data_augmentation |-> data_augmentation,
   X_list |-> FALSE, y_list |-> FALSE]

\* a context built by flow, and any RandomState
InitGate ==
  /\ ctx \in WorkCtxs
  /\ SchedIdle
  /\ WorkIdle
  /\ MixIdle
  /\ ImgIdle
  /\ ProfIdle
  /\ SeqIdle
  /\ gate_rand \in RandStates
  /\ gate_p = 0
  /\ gate_ret = "unset"

\* Generator.transform: builds its own context; data_augmentation is None
\* unless the caller passes it
Transform ==
  /\ \E a \in {"None", "True", "False"} : ctx' = TransformCtx(a)
  /\ gate_ret' = "unset"
  /\ UNCHANGED <<gate_rand, gate_p>>
  /\ UNCHANGED <<sched_rest, work_vars, mix_vars, img_vars, prof_vars, seq_vars>>

\* an operator calls ctx.do_augmentation(rand, probability)
DoAugmentation ==
  /\ \E p \in Probabilities :
       LET g == do_augmentation(ctx.data_augmentation, gate_rand, p) IN
       /\ gate_p' = p
       /\ gate_ret' = g.ret
       /\ gate_rand' = g.rand
  /\ UNCHANGED <<sched_vars, work_vars, mix_vars, img_vars, prof_vars, seq_vars>>

NextGate ==
  \/ Transform
  \/ DoAugmentation

SpecGate == InitGate /\ [][NextGate]_vars

(***************************************************************************)
(* Operators that write in place, run by the pool and through transform    *)
(***************************************************************************)
\* an operator that writes into x and y in place, one that builds a new x,
\* and one whose result fails the assertions of _work
CopyOperators ==
  {Op("CustomOperator", "inplace", 4), Op("ProcessInput", "func", 4),
   Op("CustomOperator", "drop_y", 4)}

\* a pool of concurrent workers, pipelines that write in place; the
\* operators draw nothing, one seed and one augmentation setting are enough
InitCopy ==
  /\ ctx \in WorkCtxs
  /\ ctx.data_augmentation = "True"
  /\ gen_cls = "Generator"
  /\ operators \in Pipelines(CopyOperators, PoolOps)
  /\ InitBatch(MaxBatch)
  /\ ProfIdle
  /\ \A k \in DOMAIN batch_seeds : batch_seeds[k] = 0

\* the caller's collections after _transform ran the operators from number
\* k + 1 on; tc is the context the operators are given
RECURSIVE written(_, _, _, _, _, _, _)
written(ops, k, t, alias, ix, c, tc) ==
  IF k >= Len(ops) THEN c
  ELSE LET t1 == execute(ops[k + 1], t, tc) IN
       written(ops, k + 1, t1, alias, ix,
               IF in_place(ops[k + 1]) THEN write_through(c, ix, alias, t1) ELSE c, tc)

\* Generator.transform called by the consumer, between its requests, on
\* element ix of its collections
TransformCall ==
  /\ gen_pc # "running"
  /\ \E ix \in 0 .. ctx.data_count - 1, r \in RandomStates(0) :
       LET x_ == deepcopy(pick_ref(Some(ctx.X), ix))
           y_ == deepcopy(pick_ref(ctx.y, ix))
           t0 == [x |-> Val(x_.val), y |-> y_.val,
                  w |-> pick(ctx.weights, ix), rand |-> r]
           tc == TransformCtx("None")
       IN /\ img' = transform_from(operators, 0, t0, tc)
          /\ ctx' = written(operators, 0, t0, [x |-> x_.alias, y |-> y_.alias], ix, ctx, tc)
  /\ UNCHANGED <<img_log, er>>
  /\ UNCHANGED <<sched_rest, work_vars, mix_vars, gate_vars, prof_vars, seq_vars>>

NextCopy ==
  \/ NextWork
  \/ TransformCall

SpecCopy == InitCopy /\ [][NextCopy]_vars

(***************************************************************************)
(* The image operators applied to one sample through Generator.transform   *)
(***************************************************************************)
\* the sides of the images
ImgSide == 2

\* the calls made in a row, each on the result of the one before
ImgOps == 2

\* the RandomStates the caller passes: one for each rotation count
ImgRands == {r \in RandStates : r < 4}

\* an image of h rows and w columns; each pixel holds its own number
Image(h, w) == [r \in 1 .. h |-> [q \in 1 .. w |-> (r - 1) * w + q]]

\* the coordinates of the boxes, in tenths
BoxCoords == {0, 1, 5, 10}

Boxes ==
  {<<x0, y0, x1, y1>> : x0 \in BoxCoords, y0 \in BoxCoords,
                        x1 \in BoxCoords, y1 \in BoxCoords} \cap
  {b \in Seq(BoxCoords) : Len(b) = 4 /\ b[1] <= b[3] /\ b[2] <= b[4]}

\* the labels: none, an array (not an annotation), an annotation with one box
ImgLabels ==
  {None, Some([cls |-> "ndarray", bboxes |-> <<>>])}
  \cup {Some(ObjectsAnnotation(<<b>>)) : b \in Boxes}

\* the flip and rotation operators, with probability 1
ImageOperators ==
  {Op("RandomFlipLR", "", 4), Op("RandomRotate90", "", 4)}

InitImage ==
  /\ \E a \in {"True", "False"} : ctx = TransformCtx(a)
  /\ SchedIdle
  /\ WorkIdle
  /\ MixIdle
  /\ GateIdle
  /\ ProfIdle
  /\ SeqIdle
  /\ \E h \in 1 .. ImgSide, w \in 1 .. ImgSide, y \in ImgLabels :
       img = [x |-> Image(h, w), y |-> y, w |-> None, rand |-> 0]
  /\ img_log = <<>>
  /\ er = [pc |-> "idle", tries |-> 0, ew |-> 0, eh |-> 0, ex |-> 0, ey |-> 0]

\* Generator.transform with a pipeline of one image operator, called on the
\* sample with the caller's RandomState and data_augmentation argument
ImgExec ==
  /\ Len(img_log) < ImgOps
  /\ \E op \in ImageOperators, r \in ImgRands :
       LET t0 == [img EXCEPT !.rand = r] IN
       /\ img' = transform_from(<<op>>, 0, t0, ctx)
       /\ img_log' = Append(img_log, [op |-> op, before |-> t0])
  /\ UNCHANGED er
  /\ UNCHANGED <<sched_vars, work_vars, mix_vars, gate_vars, prof_vars, seq_vars>>

NextImage ==
  \/ ImgExec

SpecImage == InitImage /\ [][NextImage]_vars

(***************************************************************************)
(* Generator.transform with a pipeline of the stochastic operators         *)
(***************************************************************************)
\* the longest pipeline
StochOps == 2

\* the operators that take the sample's RandomState into account
StochasticOperators ==
  {Op("RandomFlipLR", "", 2),
   Op("RandomRotate90", "", 4),
   Op("CustomAugmentation", "toss", 2),
   Op("RandomBinarize", "", 4),
   Op("RotationsLearning", "", 4)}

\* Generator._transform from operator number k + 1: the pipeline's result,
\* or the exception of the first operator that raises
RECURSIVE transform_or_raise(_, _, _, _)
transform_or_raise(ops, k, t, c) ==
  IF k >= Len(ops) THEN [raised |-> FALSE, t |-> t]
  ELSE IF raises(ops[k + 1], t, c) THEN [raised |-> TRUE, t |-> t]
  ELSE transform_or_raise(ops, k + 1, execute(ops[k + 1], t, c), c)

InitStoch ==
  /\ \E a \in {"True", "False", "None"} : ctx = TransformCtx(a)
  /\ SchedIdle
  /\ WorkIdle
  /\ MixIdle
  /\ GateIdle
  /\ ProfIdle
  /\ SeqIdle
  /\ \E h \in 1 .. ImgSide, w \in 1 .. ImgSide,
        y \in {None, Some(Scalar(0)), Some(ObjectsAnnotation(<<<<0, 0, 5, 10>>>>))} :
       img = [x |-> Image(h, w), y |-> y, w |-> None, rand |-> 0]
  /\ img_log = <<>>
  /\ er = [pc |-> "idle", tries |-> 0, ew |-> 0, eh |-> 0, ex |-> 0, ey |-> 0]

\* Generator.transform on the sample with the caller's RandomState: the
\* sample becomes the pipeline's result, or stays when an operator raised
StochTransform ==
  /\ img_log = <<>>
  /\ \E ops \in Pipelines(StochasticOperators, StochOps) \ {<<>>}, r \in RandStates :
       LET t0 == [img EXCEPT !.rand = r]
           res == transform_or_raise(ops, 0, t0, ctx)
       IN /\ img' = IF res.raised THEN t0 ELSE res.t
          /\ img_log' = <<[ops |-> ops, before |-> t0, raised |-> res.raised]>>
  /\ UNCHANGED er
  /\ UNCHANGED <<sched_vars, work_vars, mix_vars, gate_vars, prof_vars, seq_vars>>

NextStoch ==
  \/ StochTransform

SpecStoch == InitStoch /\ [][NextStoch]_vars

(***************************************************************************)
(* RandomErasing (not object-aware) on one sample: the candidate search of *)
(* _erase_random, one step for each pass of its loop                       *)
(***************************************************************************)
\* RandomErasing.__init__ defaults; the scales in hundredths of the image area
max_tries == 30

scale_low == 2

scale_high == 40

\* the sides of the images given to RandomErasing
EraseSide == 3

\* rand.uniform(scale_low, scale_high), in hundredths
ScaleDraws == {scale_low, 12, 25, scale_high}

\* np.exp(rand.uniform(np.log(rate_1), np.log(rate_2))): ratios <<n, d>>
\* between rate_1 = 1/3 and rate_2 = 3
RateDraws == {<<1, 3>>, <<1, 2>>, <<1, 1>>, <<2, 1>>, <<3, 1>>}

\* rand.randint(0, 255, size=3): the colour written
FillColours == {0, 254}

\* int(np.sqrt(n)) of an integer n
isqrt(n) == CHOOSE k \in 0 .. n : k * k <= n /\ (k + 1) * (k + 1) > n

\* np.round(n / d): halves go to the even neighbour
round_half_even(n, d) ==
  LET k == n \div d
      rem == n % d
  IN IF 2 * rem < d THEN k
     ELSE IF 2 * rem > d THEN k + 1
     ELSE IF k % 2 = 0 THEN k ELSE k + 1

\* np.round(y.bboxes * np.array(x.shape)[[1, 0, 1, 0]]) for an annotation,
\* None for any other label
pixel_bboxes(x, y) ==
  IF is_objects_annotation(y)
  THEN Some([n \in DOMAIN Val(y).bboxes |->
               LET b == Val(y).bboxes[n] IN
               <<round_half_even(b[1] * Cols(x), 10), round_half_even(b[2] * Rows(x), 10),
                 round_half_even(b[3] * Cols(x), 10), round_half_even(b[4] * Rows(x), 10)>>])
  ELSE None

\* (box_lt <= p) & (p <= box_rb) on both axes, p given by its doubled coordinates
contains_point(ex, ey, ew, eh, px2, py2) ==
  /\ 2 * ex <= px2 /\ px2 <= 2 * (ex + ew)
  /\ 2 * ey <= py2 /\ py2 <= 2 * (ey + eh)

Max(a, b) == IF a >= b THEN a ELSE b

\* area_inter of the candidate and box b
area_inter(b, ex, ey, ew, eh) ==
  LET ltx == Max(b[1], ex)
      lty == Max(b[2], ey)
      rbx == Min(b[3], ex + ew)
      rby == Min(b[4], ey + eh)
  IN IF ltx < rbx /\ lty < rby THEN (rbx - ltx) * (rby - lty) ELSE 0

\* mutant: the centre of the box is not tested
erase_rejects_no_centre(bboxes, ex, ey, ew, eh) ==
  \E n \in DOMAIN bboxes :
    LET b == bboxes[n] IN
    \/ contains_point(ex, ey, ew, eh, 2 * b[1], 2 * b[2])
    \/ contains_point(ex, ey, ew, eh, 2 * b[3], 2 * b[4])
    \/ contains_point(ex, ey, ew, eh, 2 * b[1], 2 * b[4])
    \/ contains_point(ex, ey, ew, eh, 2 * b[2], 2 * b[3])
    \/ 4 * area_inter(b, ex, ey, ew, eh) >= (b[3] - b[1]) * (b[4] - b[2])

\* the tests of _erase_random on a candidate: it holds one of the points
\* bb_lt, bb_rb, bb_lb, bb_rt (taken as bboxes[:, (1, 2)]) or bb_c of a box,
\* or covers a quarter or more of a box
erase_rejects(bboxes, ex, ey, ew, eh) ==
  \E n \in DOMAIN bboxes :
    LET b == bboxes[n] IN
    \/ contains_point(ex, ey, ew, eh, 2 * b[1], 2 * b[2])
    \/ contains_point(ex, ey, ew, eh, 2 * b[3], 2 * b[4])
    \/ contains_point(ex, ey, ew, eh, 2 * b[1], 2 * b[4])
    \/ contains_point(ex, ey, ew, eh, 2 * b[2], 2 * b[3])
    \/ contains_point(ex, ey, ew, eh, b[1] + b[3], b[2] + b[4])
    \/ 4 * area_inter(b, ex, ey, ew, eh) >= (b[3] - b[1]) * (b[4] - b[2])

\* x[ey:ey + eh, ex:ex + ew, :] = colour
erase(x, ex, ey, ew, eh, colour) ==
  [r \in 1 .. Rows(x) |->
     [q \in 1 .. Cols(x) |->
        IF r > ey /\ r <= ey + eh /\ q > ex /\ q <= ex + ew THEN colour ELSE x[r][q]]]

\* the labels given to RandomErasing: none, or an annotation with one box
EraseLabels ==
  {None} \cup {Some(ObjectsAnnotation(<<b>>)) : b \in {<<0, 0, 10, 10>>, <<0, 0, 5, 5>>, <<5, 0, 10, 10>>, <<0, 0, 5, 10>>}}

InitErase ==
  /\ \E a \in {"True", "False"} : ctx = TransformCtx(a)
  /\ SchedIdle
  /\ WorkIdle
  /\ MixIdle
  /\ GateIdle
  /\ ProfIdle
  /\ SeqIdle
  /\ \E h \in 1 .. EraseSide, w \in 1 .. EraseSide, y \in EraseLabels :
       img = [x |-> Image(h, w), y |-> y, w |-> None, rand |-> 0]
  /\ img_log = <<>>
  /\ er = [pc |-> "idle", tries |-> 0, ew |-> 0, eh |-> 0, ex |-> 0, ey |-> 0]

\* RandomErasing.execute up to the loop of _erase_random
EraseEnter ==
  /\ er.pc = "idle"
  /\ img_log = <<>>
  /\ LET op == Op("RandomErasing", "", 4)
         g == do_augmentation(ctx.data_augmentation, img.rand, op.probability)
     IN /\ img_log' = <<[op |-> op, before |-> img]>>
        /\ img' = [img EXCEPT !.rand = g.rand]
        /\ er' = [er EXCEPT !.pc = IF Truthy(g.ret) THEN "loop" ELSE "done"]
  /\ UNCHANGED <<sched_vars, work_vars, mix_vars, gate_vars, prof_vars, seq_vars>>

\* mutant: the loop goes on after a candidate was written
EraseTryOn ==
  /\ er.pc = "loop"
  /\ er.tries < max_tries
  /\ \E u \in ScaleDraws, rt \in RateDraws :
       LET H == Rows(img.x)
           W == Cols(img.x)
           ew == isqrt((H * W * u * rt[2]) \div (100 * rt[1]))
           eh == isqrt((H * W * u * rt[1]) \div (100 * rt[2]))
           bboxes == pixel_bboxes(img.x, img.y)
       IN IF ew <= 0 \/ eh <= 0 \/ ew >= W \/ eh >= H
          THEN /\ er' = [er EXCEPT !.tries = @ + 1]
               /\ UNCHANGED img
          ELSE \E ex \in 0 .. W - ew - 1, ey \in 0 .. H - eh - 1 :
                 IF ~IsNone(bboxes) /\ erase_rejects(Val(bboxes), ex, ey, ew, eh)
                 THEN /\ er' = [er EXCEPT !.tries = @ + 1]
                      /\ UNCHANGED img
                 ELSE \E colour \in FillColours :
                        /\ img' = [img EXCEPT !.x = erase(img.x, ex, ey, ew, eh, colour)]
                        /\ er' = [er EXCEPT !.tries = @ + 1, !.ew = ew, !.eh = eh,
                                            !.ex = ex, !.ey = ey]
  /\ UNCHANGED img_log
  /\ UNCHANGED <<sched_vars, work_vars, mix_vars, gate_vars, prof_vars, seq_vars>>

\* one pass of `for _ in range(self.max_tries)`
EraseTry ==
  /\ er.pc = "loop"
  /\ er.tries < max_tries
  /\ \E u \in ScaleDraws, rt \in RateDraws :
       LET H == Rows(img.x)
           W == Cols(img.x)
           ew == isqrt((H * W * u * rt[2]) \div (100 * rt[1]))
           eh == isqrt((H * W * u * rt[1]) \div (100 * rt[2]))
           bboxes == pixel_bboxes(img.x, img.y)
       IN IF ew <= 0 \/ eh <= 0 \/ ew >= W \/ eh >= H
          THEN /\ er' = [er EXCEPT !.tries = @ + 1]
               /\ UNCHANGED img
          ELSE \E ex \in 0 .. W - ew - 1, ey \in 0 .. H - eh - 1 :
                 IF ~IsNone(bboxes) /\ erase_rejects(Val(bboxes), ex, ey, ew, eh)
                 THEN /\ er' = [er EXCEPT !.tries = @ + 1]
                      /\ UNCHANGED img
                 ELSE \E colour \in FillColours :
                        /\ img' = [img EXCEPT !.x = erase(img.x, ex, ey, ew, eh, colour)]
                        /\ er' = [er EXCEPT !.pc = "done", !.ew = ew, !.eh = eh,
                                            !.ex = ex, !.ey = ey]
  /\ UNCHANGED img_log
  /\ UNCHANGED <<sched_vars, work_vars, mix_vars, gate_vars, prof_vars, seq_vars>>

\* the loop ran out: _erase_random returns x as it is
EraseGiveUp ==
  /\ er.pc = "loop"
  /\ er.tries = max_tries
  /\ er' = [er EXCEPT !.pc = "done"]
  /\ UNCHANGED <<img, img_log>>
  /\ UNCHANGED <<sched_vars, work_vars, mix_vars, gate_vars, prof_vars, seq_vars>>

NextErase ==
  \/ EraseEnter
  \/ EraseTry
  \/ EraseGiveUp

SpecErase == InitErase /\ [][NextErase]_vars

\* the call runs on: execute is one call on one thread and each of its steps
\* is taken once it can be
SpecEraseFair == InitErase /\ [][NextErase]_vars /\ WF_vars(NextErase)

(***************************************************************************)
(* Claims about the scheduler                                              *)
(***************************************************************************)
IsPrefix(s, t) == Len(s) <= Len(t) /\ s = SubSeq(t, 1, Len(s))

Unshuffled == fb_pc = "unshuffled" /\ ~ctx.shuffle /\ ~ctx.balanced

\* the unshuffled lap is complete: its last chunk has been yielded
LapDone == Unshuffled /\ pos = 0 /\ lap_out # <<>>

\* C1: in unshuffled mode with sample_count >= 1 the index batches of a lap,
\* concatenated in emission order, are 0, 1, ..., sample_count-1 (every
\* index once, ascending), whatever seeds were drawn, and every later lap
\* emits the same index batches as the lap before it.
C1_UnshuffledLapIsArange ==
  (Unshuffled /\ ctx.data_count >= 1) =>
    /\ IsPrefix(Concat(lap_out), Arange(ctx.data_count))
    /\ (LapDone => Concat(lap_out) = Arange(ctx.data_count))
    /\ (yielded => batch_indices = lap_out[Len(lap_out)])
    /\ (prev_lap # <<>> => IsPrefix(lap_out, prev_lap))
    /\ ((prev_lap # <<>> /\ LapDone) => lap_out = prev_lap)

\* C1 witness: a second lap of 3 samples in batches of 2 is complete
C1_Witness ==
  /\ Unshuffled /\ ctx.data_count = 3 /\ ctx.batch_size = 2
  /\ LapDone /\ yielded
  /\ prev_lap = <<<<0, 1>>, <<2>>>>
  /\ lap_out = prev_lap

\* the last k elements of a sequence
LastN(s, k) == SubSeq(s, Len(s) - k + 1, Len(s))

\* C2: in shuffled mode every emitted batch holds exactly batch_size indices
\* and batch_size seeds; the pairs left over at the end of a lap are neither
\* emitted short nor dropped (every pulled pair is in a batch: the pairs
\* pulled so far are the full batches plus the list being filled) and the
\* list is completed with the first pairs of the next lap's order.
C2_ShuffledBatchesFull ==
  (fb_pc = "shuffled") =>
    /\ Len(batch_indices) = Len(batch_seeds)
    /\ Len(batch_indices) <= ctx.batch_size
    /\ (yielded <=> Len(batch_indices) = ctx.batch_size)
    /\ Len(batch_indices) % ctx.batch_size = pulled
    /\ LET k == Min(pos, Len(batch_indices)) IN
         /\ LastN(batch_indices, k) = SubSeq(indices, pos - k + 1, pos)
         /\ LastN(batch_seeds, k) = SubSeq(seeds, pos - k + 1, pos)

\* C2 witness: a full batch of 2 that spans a lap boundary of a 3-sample
\* dataset (one leftover pair completed with the first pair of the next lap)
C2_Witness ==
  /\ fb_pc = "shuffled" /\ ctx.data_count = 3 /\ ctx.batch_size = 2
  /\ yielded /\ pos = 1
  /\ Len(batch_indices) = 2 /\ batch_indices[2] = indices[1]

\* the indices scheduled so far in the running lap
LapFlat == Concat(lap_out)

\* how many times index v occurs in the sequence s
Occurrences(s, v) == Cardinality({k \in DOMAIN s : s[k] = v})

\* C28: in shuffled mode every lap is a permutation of [0, sample_count)
\* scheduled from its first entry to its last, so every index is scheduled
\* exactly once per lap and the numbers of times two indices have been
\* scheduled differ by at most one; an index occurs twice in one batch only
\* when the batch spans a lap boundary.
C28_ShuffledLapsArePermutations ==
  (fb_pc = "shuffled" /\ ctx.shuffle) =>
    LET n == ctx.data_count IN
    /\ Len(indices) = n
    /\ \A v \in 0 .. n - 1 : Occurrences(indices, v) = 1
    /\ pos <= n
    /\ LapFlat = SubSeq(indices, 1, Len(LapFlat))
    /\ (lap_out # <<>> => Len(LapFlat) = pos)
    /\ \A v, u \in 0 .. n - 1 :
         Occurrences(LapFlat, v) - Occurrences(LapFlat, u) <= 1
    /\ (Len(LapFlat) = n => \A v \in 0 .. n - 1 : Occurrences(LapFlat, v) = 1)
    /\ \A a, b \in DOMAIN batch_indices :
         (a < b /\ batch_indices[a] = batch_indices[b]) =>
           Len(batch_indices) - a >= pos

\* C28 witness: a batch of 2 over a lap boundary of a 3-sample dataset holds
\* the same index twice: the last of one lap and the first of the next
C28_Witness ==
  /\ fb_pc = "shuffled" /\ ctx.shuffle
  /\ ctx.data_count = 3 /\ ctx.batch_size = 2
  /\ yielded /\ pos = 1
  /\ batch_indices = <<indices[1], indices[1]>>
  /\ LapFlat = <<indices[1]>>

\* C3: in balanced mode every emitted batch holds exactly batch_size indices
\* and batch_size seeds, each index is in [0, sample_count) and is a sample
\* of the class drawn for its slot, and that class is one of the distinct
\* classes present in the labels.
C3_BalancedBatch ==
  (fb_pc = "balanced" /\ yielded) =>
    /\ Len(batch_indices) = ctx.batch_size
    /\ Len(batch_seeds) = ctx.batch_size
    /\ Len(y_batch) = ctx.batch_size
    /\ \A k \in 1 .. ctx.batch_size :
         /\ batch_indices[k] \in 0 .. (ctx.data_count - 1)
         /\ batch_seeds[k] \in Seeds
         /\ y_classes(ctx)[batch_indices[k] + 1] = y_batch[k]
         /\ \E i \in 1 .. ctx.data_count : y_classes(ctx)[i] = y_batch[k]

\* C3 witness: a balanced batch of 2 drawn from two classes of 3 samples,
\* the two slots of different classes
C3_Witness ==
  /\ fb_pc = "balanced" /\ yielded
  /\ ctx.data_count = 3 /\ ctx.batch_size = 2
  /\ Cardinality(unique(y_classes(ctx))) = 2
  /\ y_batch[1] # y_batch[2]

\* C10: in unbalanced mode, for sample_count >= 0 and batch_size >= 1, the
\* step count flow returns is ceil(sample_count / batch_size), and it is the
\* number of chunks the unshuffled scheduler emits per lap (none at all when
\* it is 0: array_split refuses 0 sections).
C10_StepsIsCeil ==
  (~ctx.balanced /\ ~IsNone(flow_steps)) =>
    LET s == Val(flow_steps) IN
    /\ s * ctx.batch_size >= ctx.data_count
    /\ (s - 1) * ctx.batch_size < ctx.data_count
    /\ (Unshuffled => Len(lap_out) <= s)
    /\ (LapDone => Len(lap_out) = s)
    /\ (fb_pc = "raised" => (s = 0 /\ lap_out = <<>> /\ ~yielded))

\* C10 witness: a complete unshuffled lap of 3 samples with batch_size 2
C10_Witness ==
  /\ LapDone /\ ctx.data_count = 3 /\ ctx.batch_size = 2
  /\ flow_steps = Some(2) /\ Len(lap_out) = 2

\* C11: in unshuffled mode a lap is emitted as exactly steps_per_epoch
\* batches whose sizes differ by at most one; no batch is empty, none holds
\* more than batch_size indices, and the steps_per_epoch batches are exactly
\* one lap.
C11_UnshuffledChunks ==
  (Unshuffled /\ ~IsNone(flow_steps)) =>
    /\ (yielded => (Len(batch_indices) >= 1 /\ Len(batch_indices) <= ctx.batch_size))
    /\ \A i \in DOMAIN lap_out :
         /\ Len(lap_out[i]) >= 1
         /\ Len(lap_out[i]) <= ctx.batch_size
         /\ \A j \in DOMAIN lap_out : Len(lap_out[i]) - Len(lap_out[j]) <= 1
    /\ Len(lap_out) <= Val(flow_steps)
    /\ (LapDone => Len(lap_out) = Val(flow_steps))
    /\ ((lap_out # <<>> /\ Len(lap_out) = Val(flow_steps)) => LapDone)
    /\ (LapDone => Len(Concat(lap_out)) = ctx.data_count)

\* C11 witness: the first lap of 3 samples with batch_size 2 is complete,
\* in two batches of 2 and 1 indices
C11_Witness ==
  /\ LapDone /\ prev_lap = <<>>
  /\ Len(lap_out) = 2 /\ Len(lap_out[1]) = 2 /\ Len(lap_out[2]) = 1
  /\ Val(flow_steps) = 2

\* flow returned a stream and a request for its next batch is being served
Requested ==
  fb_pc \in {"created", "balanced", "shuffled", "unshuffled"} /\ ~yielded

\* C14: for every dataset the context accepts and in each of the three
\* modes, the stream flow returns never ends: it never fails or signals
\* exhaustion, and every request for the next batch eventually returns a
\* batch.
C14_StreamNeverEnds ==
  /\ [](fb_pc # "raised")
  /\ (Requested ~> yielded)

\* the number of samples of class k
ClassCount(k) ==
  Cardinality({i \in DOMAIN y_classes(ctx) : y_classes(ctx)[i] = k})

\* C15: in balanced mode the step count flow returns is the number of
\* samples of the least-populated class present, times the number of
\* distinct classes present, whatever the class ids are (contiguous from 0
\* or not).
C15_BalancedSteps ==
  (ctx.balanced /\ ~IsNone(flow_steps)) =>
    LET present == unique(y_classes(ctx)) IN
    \E k \in present :
      /\ \A j \in present : ClassCount(k) <= ClassCount(j)
      /\ Val(flow_steps) = ClassCount(k) * Cardinality(present)

\* the sample count: the length of X (of its arrays when it is a list)
SampleCount == Len(ctx.X)

\* the arguments are inconsistent: balanced without shuffle, or labels or
\* weights whose length is not the sample count
BadCall ==
  \/ (ctx.balanced /\ ~ctx.shuffle)
  \/ (~IsNone(ctx.y) /\ Len(Val(ctx.y)) # SampleCount)
  \/ (~IsNone(ctx.weights) /\ Len(Val(ctx.weights)) # SampleCount)

SampleRun(ix, seed) ==
  transform_from(operators, 0,
                 [x |-> ctx.X[ix + 1], y |-> pick(ctx.y, ix),
                  w |-> pick(ctx.weights, ix), rand |-> seed % 8],
                 ctx)

Returned(k) == pool[k].pc \in {"done", "failed"}

\* C4: two runs of _work on the same scheduled (index, seed) pair give the
\* same (x, y, w), whichever worker runs them, however the workers of the
\* batch interleave and whatever the other samples of the batch are: the
\* result is that of the pair run alone.
C4_PerSampleDeterminism ==
  /\ \A i, j \in DOMAIN pool :
       (Returned(i) /\ Returned(j)
          /\ pool[i].ix = pool[j].ix /\ pool[i].seed = pool[j].seed)
       => (pool[i].t.x = pool[j].t.x /\ pool[i].t.y = pool[j].t.y
             /\ pool[i].t.w = pool[j].t.w)
  /\ \A i \in DOMAIN pool :
       Returned(i) => pool[i].t = SampleRun(pool[i].ix, pool[i].seed)

\* C4 witness: the same pair scheduled twice in a batch, run through an
\* augmenting operator that fired, the second task returning first
C4_Witness ==
  /\ Len(pool) = 2
  /\ pool[1].ix = pool[2].ix /\ pool[1].seed = pool[2].seed
  /\ done_order = <<2, 1>>
  /\ ctx.data_augmentation = "True"
  /\ operators = <<Op("CustomAugmentation", "jitter", 2)>>
  /\ pool[1].t.x # ctx.X[pool[1].ix + 1]

\* C5: in every yielded batch, position k of the input array, of the label
\* array and of the weight array hold the result of the k-th scheduled
\* (index, seed) pair, in whatever order the tasks completed.
C5_BatchInSchedulerOrder ==
  (gen_pc = "yielded") =>
    LET b == Val(out) IN
    /\ \A a \in DOMAIN b.items : Len(b.items[a]) = Len(batch_indices)
    /\ \A k \in DOMAIN batch_indices :
         LET r == SampleRun(batch_indices[k], batch_seeds[k]) IN
         /\ b.items[1][k] = r.x
         /\ (Len(b.items) >= 2 => Some(b.items[2][k]) = r.y)
         /\ (Len(b.items) >= 3 => Some(b.items[3][k]) = r.w)

\* C5 witness: a yielded 3-tuple batch of two different samples whose tasks
\* completed in the reverse of the scheduled order
C5_Witness ==
  /\ gen_pc = "yielded"
  /\ Len(Val(out).items) = 3
  /\ batch_indices = <<1, 0>>
  /\ done_order = <<2, 1>>

\* C6 as claimed: an execute of any operator of the pipeline that changes
\* the presence of the label or of the weight makes the sample's work fail
\* with an assertion, so that no batch containing the sample is yielded.
C6_EveryOperatorAsserted ==
  /\ \A k \in DOMAIN pool : pool[k].broke => pool[k].pc # "done"
  /\ (gen_pc = "yielded" => \A k \in DOMAIN pool : ~pool[k].broke)

\* C6 amended: _work asserts on the pipeline's final result only: when the
\* label (weight) the last operator returned is None and the sample's label
\* (weight) was not, or the reverse, the work fails with an assertion and no
\* batch containing the sample is yielded; a change of presence that a later
\* operator undoes is not detected.
C6_FinalPresenceAsserted ==
  /\ \A k \in DOMAIN pool :
       LET same == /\ IsNone(pool[k].t.y) = IsNone(pool[k].y0)
                   /\ IsNone(pool[k].t.w) = IsNone(pool[k].w0)
       IN /\ (pool[k].pc = "done" => same)
          /\ (pool[k].pc = "failed" => (~same /\ pool[k].broke))
          /\ ((pool[k].pc # "pending" /\ pool[k].op = Len(operators) /\ ~same)
                => (pool[k].pc # "done" /\ gen_pc # "yielded" /\ IsNone(out)))
  /\ (gen_pc = "yielded" => \A k \in DOMAIN pool : pool[k].pc = "done")

\* C6 witness: a custom operator returned y = None for a sample with a
\* label, the work failed and the request raised without a batch
C6_Witness ==
  /\ gen_pc = "raised" /\ IsNone(out)
  /\ Len(pool) = 1 /\ pool[1].pc = "failed"
  /\ ~IsNone(pool[1].y0) /\ IsNone(pool[1].t.y)
  /\ operators = <<Op("ProcessOutput", "func", 4), Op("CustomOperator", "drop_y", 4)>>
\* the work of slot k ended with an exception (of an operator, or of the
\* assertions of _work)
Errored(k) == pool[k].pc \in {"failed", "raised"}

\* C13: when the pipeline raises for one sample of a batch, the request for
\* that batch raises: no batch is yielded for it, neither a partial one nor
\* one without the failing sample, and the sample is not run again; a
\* yielded batch holds one result per scheduled index.
C13_BadSampleFailsBatch ==
  /\ (\E k \in DOMAIN pool : Errored(k)) =>
        /\ gen_pc \in {"running", "raised"}
        /\ IsNone(out)
        /\ (gen_pc = "running" => (ENABLED Raise /\ ~ENABLED Assemble))
        /\ \A k \in DOMAIN pool :
             Errored(k) => ~ENABLED (WorkStart(k) \/ ExecOp(k) \/ WorkFinish(k))
  /\ (gen_pc = "raised" => IsNone(out))
  /\ (gen_pc = "yielded" =>
        /\ \A k \in DOMAIN pool : pool[k].pc = "done"
        /\ \A a \in DOMAIN Val(out).items :
             Len(Val(out).items[a]) = Len(batch_indices))

\* C13 witness: in a batch of two samples the operator raised for one, the
\* other returned its result, and the request raised without a batch
C13_Witness ==
  /\ gen_pc = "raised" /\ IsNone(out)
  /\ Len(pool) = 2
  /\ pool[1].pc = "raised" /\ pool[2].pc = "done"
  /\ operators = <<Op("CustomOperator", "reject_odd", 4)>>

(***************************************************************************)
(* Claims about mixup and about the augmentation gate                      *)
(***************************************************************************)
\* C7: for every pair of batches taken in lockstep from the two streams,
\* mixup draws one m with 0 <= m <= 1 and yields, for every position k of
\* the tuple, m * b1[k] + (1 - m) * b2[k], the same m at every position
\* (values are in quarters: m = 4 is 1).
C7_MixupConvexCombination ==
  (mix_pc = "yielded") =>
    LET k == Val(m) IN
    /\ 0 <= k /\ k <= 4
    /\ Len(Val(mix_out).items) = Len(Val(b1).items)
    /\ \A a \in DOMAIN Val(b1).items :
         /\ Len(Val(mix_out).items[a]) = Len(Val(b1).items[a])
         /\ \A e \in DOMAIN Val(b1).items[a] :
              Val(mix_out).items[a][e] =
                k * Val(b1).items[a][e] + (4 - k) * Val(b2).items[a][e]

\* C7 witness: two different 3-tuples mixed with m = 1/4
C7_Witness ==
  /\ mix_pc = "yielded"
  /\ m = Some(1)
  /\ Len(Val(b1).items) = 3
  /\ Val(b1).items = <<<<1, 0>>, <<1, 1>>, <<1, 1>>>>
  /\ Val(b2).items = <<<<0, 1>>, <<0, 0>>, <<1, 1>>>>
  /\ Val(mix_out).items = <<<<1, 3>>, <<1, 1>>, <<4, 4>>>>

MixupAccepts(p1, p2) ==
  /\ p1.kind = "tuple" /\ p2.kind = "tuple"
  /\ (Len(p1.items) = 2 \/ Len(p1.items) = 3)
  /\ Len(p2.items) = Len(p1.items)

\* C8: mixup fails with an assertion and yields nothing for the pair when
\* either batch is not a tuple, has an arity other than 2 or 3, or the two
\* arities differ; a stream built by flow yields a bare array without labels,
\* a 2-tuple with labels and a 3-tuple with labels and weights.
C8_MixupRejectsBadPairs ==
  /\ (mix_pc \in {"yielded", "raised"} =>
        (mix_pc = "yielded" <=> MixupAccepts(Val(b1), Val(b2))))
  /\ (mix_pc = "raised" => (IsNone(mix_out) /\ IsNone(m)))
  /\ \A c \in StreamCtxs : \A r \in StreamResults(c) :
       LET g == get_result(c, r) IN
       /\ (IsNone(c.y) => g.kind = "array")
       /\ ((~IsNone(c.y) /\ IsNone(c.weights)) => (g.kind = "tuple" /\ Len(g.items) = 2))
       /\ ((~IsNone(c.y) /\ ~IsNone(c.weights)) => (g.kind = "tuple" /\ Len(g.items) = 3))

\* C8 witness: a 2-tuple (labels, no weights) met a 3-tuple (labels and
\* weights) and mixup raised
C8_Witness ==
  /\ mix_pc = "raised" /\ IsNone(mix_out)
  /\ Val(b1).kind = "tuple" /\ Len(Val(b1).items) = 2
  /\ Val(b2).kind = "tuple" /\ Len(Val(b2).items) = 3

\* batch p is what mixup yields for some accepted pair of batches of streams
\* built by flow (mixup's values are in quarters, a stream's in units)
YieldedByMixup(p) ==
  /\ p.kind = "list"
  /\ \E f1, f2 \in FlowBatches : \E k \in BetaDraws :
       /\ mixup_asserts(f1, f2)
       /\ DOMAIN p.items = DOMAIN f1.items
       /\ \A a \in DOMAIN p.items :
            [e \in DOMAIN p.items[a] |-> 4 * p.items[a][e]] = mix(f1.items[a], f2.items[a], k)

\* C29: every batch mixup yields is a list with as many elements as the input
\* tuples; consequently a pass of mixup that is handed a batch yielded by
\* mixup, from either stream, fails the tuple assertion and yields nothing.
C29_MixupYieldsList ==
  /\ (mix_pc = "yielded" =>
        /\ Val(mix_out).kind = "list"
        /\ Val(b1).kind = "tuple" /\ Val(b2).kind = "tuple"
        /\ Len(Val(mix_out).items) = Len(Val(b1).items)
        /\ Len(Val(mix_out).items) = Len(Val(b2).items))
  /\ (mix_pc \in {"yielded", "raised"} =>
        ((Val(b1).kind = "list" \/ Val(b2).kind = "list") =>
           (mix_pc = "raised" /\ IsNone(mix_out) /\ IsNone(m))))

\* C29 witness: the first stream handed over a 2-element list that mixup
\* yields, the second a 2-tuple of a stream built by flow, and mixup raised
C29_Witness ==
  /\ mix_pc = "raised" /\ IsNone(mix_out)
  /\ YieldedByMixup(Val(b1)) /\ Len(Val(b1).items) = 2
  /\ Val(b2) \in FlowBatches /\ Val(b2).kind = "tuple" /\ Len(Val(b2).items) = 2

\* C9: do_augmentation returns True for every probability >= 1 when
\* augmentation is enabled, and a false value (False or None) for every
\* probability and every RNG state when it is not, the context built by
\* transform without a data_augmentation argument included.
C9_AugmentationGate ==
  (gate_ret # "unset") =>
    /\ ((Truthy(ctx.data_augmentation) /\ gate_p >= 4) => gate_ret = "True")
    /\ (~Truthy(ctx.data_augmentation) => gate_ret \in {"False", "None"})

\* C9 witness: the gate was asked with probability 1 in the context
\* transform builds by default and returned None
C9_Witness ==
  /\ ctx = TransformCtx("None")
  /\ gate_p = 4
  /\ gate_ret = "None"

(***************************************************************************)
(* Claims about the image operators                                        *)
(***************************************************************************)
\* the sample a logged call returned: the input of the next call, or the
\* working sample after the last one
ImgAfter(i) == IF i < Len(img_log) THEN img_log[i + 1].before ELSE img

\* the i-th call ran operator class cls, the operator fired and the label
\* it was given is an annotation
ImgFired(i, cls) ==
  /\ i \in DOMAIN img_log
  /\ img_log[i].op.cls = cls
  /\ Truthy(ctx.data_augmentation)
  /\ is_objects_annotation(img_log[i].before.y)

BoxesBefore(i) == Val(img_log[i].before.y).bboxes

BoxesAfter(i) == Val(ImgAfter(i).y).bboxes

\* C16: when the horizontal flip fires, every box (x0, y0, x1, y1) of the
\* label becomes (1 - x1, y0, 1 - x0, y1): the y columns are unchanged,
\* x0 <= x1 is preserved, and a second flip restores the original box.
C16_FlipLRBoxes ==
  \A i \in DOMAIN img_log :
    ImgFired(i, "RandomFlipLR") =>
      /\ is_objects_annotation(ImgAfter(i).y)
      /\ DOMAIN BoxesAfter(i) = DOMAIN BoxesBefore(i)
      /\ \A n \in DOMAIN BoxesBefore(i) :
           LET b == BoxesBefore(i)[n]
               a == BoxesAfter(i)[n]
           IN /\ a = <<10 - b[3], b[2], 10 - b[1], b[4]>>
              /\ a[1] <= a[3]
      /\ (ImgFired(i + 1, "RandomFlipLR") => BoxesAfter(i + 1) = BoxesBefore(i))

\* C16 witness: the box [0.1, 0.1, 0.5, 0.5] was flipped to
\* [0.5, 0.1, 0.9, 0.5] and flipped back by a second call
C16_Witness ==
  /\ Len(img_log) = 2
  /\ ImgFired(1, "RandomFlipLR") /\ ImgFired(2, "RandomFlipLR")
  /\ BoxesBefore(1) = <<<<1, 1, 5, 5>>>>
  /\ BoxesAfter(1) = <<<<5, 1, 9, 5>>>>
  /\ BoxesAfter(2) = <<<<1, 1, 5, 5>>>>
  /\ img_log[2].before.x = flip_lr(img_log[1].before.x)

\* the rotation count the i-th call drew
RotK(i) == randint(img_log[i].before.rand, 4).v

\* pixel (r, q) of image x lies inside box b: its cell, in tenths of the
\* image's sides, is between the box's corners
PixelInBox(x, r, q, b) ==
  /\ (q - 1) * 10 >= b[1] * Cols(x) /\ q * 10 <= b[3] * Cols(x)
  /\ (r - 1) * 10 >= b[2] * Rows(x) /\ r * 10 <= b[4] * Rows(x)

\* C20: when the rotation operator fires with count k, the boxes are remapped
\* as the pixels are rotated: k = 0 leaves the box, k = 1 maps
\* (x0, y0, x1, y1) to (y0, 1-x1, y1, 1-x0), k = 2 to (1-x1, 1-y1, 1-x0, 1-y0),
\* k = 3 to (1-y1, x0, 1-y0, x1); every pixel inside the original box lands
\* inside the remapped box, which keeps x0 <= x1 and y0 <= y1 within [0, 1];
\* k = 1 followed by k = 3 restores the original box.
C20_Rotate90Boxes ==
  \A i \in DOMAIN img_log :
    ImgFired(i, "RandomRotate90") =>
      LET k == RotK(i)
          x0 == img_log[i].before.x
          x1 == ImgAfter(i).x
      IN
      /\ k \in 0 .. 3
      /\ is_objects_annotation(ImgAfter(i).y)
      /\ DOMAIN BoxesAfter(i) = DOMAIN BoxesBefore(i)
      /\ \A n \in DOMAIN BoxesBefore(i) :
           LET b == BoxesBefore(i)[n]
               a == BoxesAfter(i)[n]
           IN /\ k = 0 => a = b
              /\ k = 1 => a = <<b[2], 10 - b[3], b[4], 10 - b[1]>>
              /\ k = 2 => a = <<10 - b[3], 10 - b[4], 10 - b[1], 10 - b[2]>>
              /\ k = 3 => a = <<10 - b[4], b[1], 10 - b[2], b[3]>>
              /\ a[1] <= a[3] /\ a[2] <= a[4]
              /\ \A j \in 1 .. 4 : a[j] >= 0 /\ a[j] <= 10
              /\ \A r \in 1 .. Rows(x0), q \in 1 .. Cols(x0) :
                   PixelInBox(x0, r, q, b) =>
                     \E r1 \in 1 .. Rows(x1), q1 \in 1 .. Cols(x1) :
                       /\ x1[r1][q1] = x0[r][q]
                       /\ PixelInBox(x1, r1, q1, a)
      /\ (k = 1 /\ ImgFired(i + 1, "RandomRotate90") /\ RotK(i + 1) = 3) =>
           BoxesAfter(i + 1) = BoxesBefore(i)

\* C20 witness: a box over the left half of a two-column image was rotated
\* with k = 1 to the bottom half, its pixels with it, and back with k = 3
C20_Witness ==
  /\ Len(img_log) = 2
  /\ ImgFired(1, "RandomRotate90") /\ ImgFired(2, "RandomRotate90")
  /\ RotK(1) = 1 /\ RotK(2) = 3
  /\ img_log[1].before.x = Image(1, 2)
  /\ BoxesBefore(1) = <<<<0, 0, 5, 10>>>>
  /\ PixelInBox(img_log[1].before.x, 1, 1, BoxesBefore(1)[1])
  /\ BoxesAfter(1) = <<<<0, 5, 10, 10>>>>
  /\ ImgAfter(1).x = <<<<2>>, <<1>>>>
  /\ BoxesAfter(2) = <<<<0, 0, 5, 10>>>>
  /\ img.x = Image(1, 2)

\* RandomErasing was called, fired, and the label's single box fills the image
WholeImageBox ==
  /\ img_log # <<>>
  /\ img_log[1].op.cls = "RandomErasing"
  /\ Truthy(ctx.data_augmentation)
  /\ img.y = Some(ObjectsAnnotation(<<<<0, 0, 10, 10>>>>))

\* the image RandomErasing was given
ErasedFrom == img_log[1].before.x

\* a candidate was accepted
Accepted == er.pc = "done" /\ er.ew > 0

\* C18 as stated: with a box that fills the whole image no candidate is
\* accepted in any of the max_tries passes and the image comes back unmodified.
C18_WholeBoxNeverErased ==
  WholeImageBox =>
    /\ ~Accepted
    /\ img.x = ErasedFrom

\* C18 (amended): with a box that fills the whole image the image comes back
\* unmodified only when each of the max_tries candidates was rejected; an
\* accepted candidate lies inside the image, holds neither the box's top-left
\* corner nor its centre, covers less than a quarter of the box, and exactly
\* its pixels are overwritten.
C18_ErasedUnlessAllRejected ==
  WholeImageBox =>
    LET H == Rows(ErasedFrom)
        W == Cols(ErasedFrom)
    IN
    /\ er.tries <= max_tries
    /\ (er.pc = "loop" => img.x = ErasedFrom)
    /\ ((er.pc = "done" /\ ~Accepted) => (er.tries = max_tries /\ img.x = ErasedFrom))
    /\ Accepted =>
         /\ er.ew >= 1 /\ er.eh >= 1
         /\ er.ex >= 0 /\ er.ex + er.ew < W
         /\ er.ey >= 0 /\ er.ey + er.eh < H
         /\ ~(er.ex = 0 /\ er.ey = 0)
         /\ ~(/\ 2 * er.ex <= W /\ W <= 2 * (er.ex + er.ew)
              /\ 2 * er.ey <= H /\ H <= 2 * (er.ey + er.eh))
         /\ 4 * er.ew * er.eh < W * H
         /\ \A r \in 1 .. H, q \in 1 .. W :
              IF r > er.ey /\ r <= er.ey + er.eh /\ q > er.ex /\ q <= er.ex + er.ew
              THEN img.x[r][q] \in FillColours
              ELSE img.x[r][q] = ErasedFrom[r][q]

\* C18 witness: on a 3 x 3 image under a whole-image box the first candidate,
\* one pixel at column 0, row 1, was accepted and overwritten
C18_Witness ==
  /\ WholeImageBox /\ Accepted
  /\ ErasedFrom = Image(3, 3)
  /\ er.tries = 0
  /\ er.ew = 1 /\ er.eh = 1 /\ er.ex = 0 /\ er.ey = 1
  /\ img.x[2][1] = 0
  /\ img.x # ErasedFrom

\* C18 witness of the other case: all max_tries candidates were rejected and
\* the image came back as it was
C18_GaveUp ==
  /\ WholeImageBox
  /\ er.pc = "done" /\ ~Accepted
  /\ er.tries = max_tries
  /\ img.x = ErasedFrom

\* the boxes RandomErasing was given, in pixels
ErasedBoxes == Val(pixel_bboxes(ErasedFrom, img.y))

\* a candidate was accepted under the boxes of an annotation
AcceptedUnderBoxes ==
  /\ img_log # <<>>
  /\ img_log[1].op.cls = "RandomErasing"
  /\ Accepted
  /\ is_objects_annotation(img.y)

\* the accepted rectangle holds the point (px, py)
RectHolds(px, py) ==
  /\ er.ex <= px /\ px <= er.ex + er.ew
  /\ er.ey <= py /\ py <= er.ey + er.eh

\* C26: with bounding boxes supplied, every rectangle the search accepts and
\* fills contains none of the four corners (top-left, top-right, bottom-left,
\* bottom-right) and not the centre of any box.
C26_ErasedAvoidsCornersAndCentre ==
  AcceptedUnderBoxes =>
    \A n \in DOMAIN ErasedBoxes :
      LET b == ErasedBoxes[n] IN
      /\ ~RectHolds(b[1], b[2])
      /\ ~RectHolds(b[3], b[2])
      /\ ~RectHolds(b[1], b[4])
      /\ ~RectHolds(b[3], b[4])
      /\ ~(/\ 2 * er.ex <= b[1] + b[3] /\ b[1] + b[3] <= 2 * (er.ex + er.ew)
           /\ 2 * er.ey <= b[2] + b[4] /\ b[2] + b[4] <= 2 * (er.ey + er.eh))

\* C27: the candidate search ends after at most max_tries passes; it fills
\* at most one rectangle (the image is written once, from its original
\* contents, and the loop ends with that write); when no candidate is
\* accepted it returns the sample as it was, and nothing follows the return.
C27_ErasingSearchBounded ==
  /\ [](er.tries <= max_tries)
  /\ [](er.pc \in {"idle", "loop", "done"})
  /\ [][img'.x # img.x =>
          (er.pc = "loop" /\ img.x = ErasedFrom /\ er'.pc = "done")]_vars
  /\ []((er.pc = "done" /\ ~Accepted) =>
          (/\ img.x = ErasedFrom
           /\ img.y = img_log[1].before.y
           /\ img.w = img_log[1].before.w))
  /\ [][er.pc # "done"]_vars
  /\ (er.pc = "loop" ~> er.pc = "done")

\* C27 witness: under a box over the top-left quarter of a 3 x 3 image all
\* max_tries candidates were refused and the image came back as it was
C27_Witness ==
  /\ er.pc = "done" /\ ~Accepted
  /\ er.tries = max_tries
  /\ Truthy(ctx.data_augmentation)
  /\ img.y = Some(ObjectsAnnotation(<<<<0, 0, 5, 5>>>>))
  /\ ErasedFrom = Image(3, 3)
  /\ img.x = Image(3, 3)

(***************************************************************************)
(* Claims about the stochastic operators                                   *)
(***************************************************************************)
\* what the caller of transform sees: the exception, or x, y and w
Outcome(res) ==
  IF res.raised THEN <<"raised">> ELSE <<"returned", res.t.x, res.t.y, res.t.w>>

\* the call recorded in the log has the same outcome for every RandomState
SameForEverySeed ==
  \A r \in RandStates :
    Outcome(transform_or_raise(img_log[1].ops, 0, [img_log[1].before EXCEPT !.rand = r], ctx))
      = Outcome([raised |-> img_log[1].raised, t |-> img])

HasRotationsLearning(ops) == \E k \in DOMAIN ops : ops[k].cls = "RotationsLearning"

\* C21 as stated: with augmentation disabled the result of every pipeline of
\* the provided operators is the same for every per-sample seed.
C21_DisabledIgnoresSeed ==
  (img_log # <<>> /\ ~Truthy(ctx.data_augmentation)) => SameForEverySeed

\* C21, amended: with augmentation disabled the result of every pipeline of
\* the provided operators that holds no RotationsLearning is the same for
\* every per-sample seed; RotationsLearning draws its rotation count from
\* the per-sample RNG without asking the gate, and a pipeline that reaches it
\* with the label 0 returns a rotation and a label that follow the seed.
C21_DisabledIgnoresSeedButRotations ==
  (img_log # <<>> /\ ~Truthy(ctx.data_augmentation)) =>
    /\ (~HasRotationsLearning(img_log[1].ops) => SameForEverySeed)
    /\ ((img_log[1].ops[Len(img_log[1].ops)].cls = "RotationsLearning" /\ ~img_log[1].raised) =>
          \E r \in RandStates :
            transform_or_raise(img_log[1].ops, 0,
                               [img_log[1].before EXCEPT !.rand = r], ctx).t.y # img.y)

\* C21 witness: augmentation disabled, a rotation and a binarization were run
\* on a 2 x 2 image and left it unrotated, binarized at the middle threshold
C21_Witness ==
  /\ img_log # <<>> /\ ~Truthy(ctx.data_augmentation)
  /\ img_log[1].ops = <<Op("RandomRotate90", "", 4), Op("RandomBinarize", "", 4)>>
  /\ img_log[1].before.x = Image(2, 2)
  /\ img_log[1].before.rand = 1
  /\ img.x = <<<<0, 255>>, <<255, 255>>>>
  /\ img.rand = 1

(***************************************************************************)
(* Claims about the caller's collections and about the pipeline            *)
(***************************************************************************)
\* C17: no step of a batch produced through flow and no call of transform
\* changes the caller's X, y or weights, whatever the operators write into
\* their arguments and even when several workers process the same index.
C17_CallerCollectionsUnchanged ==
  [][/\ ctx'.X = ctx.X
     /\ ctx'.y = ctx.y
     /\ ctx'.weights = ctx.weights]_vars

\* C17 witness: two workers processed the same index through an operator
\* that writes in place, transform was called as well, all results differ
\* from the caller's sample, and the batch was yielded
C17_Witness ==
  /\ gen_pc = "yielded"
  /\ Len(pool) = 2
  /\ pool[1].ix = pool[2].ix
  /\ operators = <<Op("CustomOperator", "inplace", 4)>>
  /\ ~IsNone(ctx.y)
  /\ \A k \in 1 .. 2 :
       /\ pool[k].pc = "done"
       /\ pool[k].t.x # ctx.X[pool[k].ix + 1]
       /\ Val(pool[k].t.y) # Val(ctx.y)[pool[k].ix + 1]
  /\ ~IsNone(ctx.weights) /\ ~IsNone(img.w)
  /\ img.x # ctx.X[pool[1].ix + 1]
  /\ ctx.X = <<1, 2>>
  /\ ctx.y = Some(<<3, 4>>)

\* the triple _pick_next gave the task in slot i, with its RandomState
Picked(i) ==
  [x |-> ctx.X[pool[i].ix + 1],
   y |-> pick(ctx.y, pool[i].ix),
   w |-> pick(ctx.weights, pool[i].ix),
   rand |-> CHOOSE r \in RandomStates(pool[i].seed) : TRUE]

\* the operators run on one sample are the head of the pipeline, in its
\* order, each once, each fed the result of the one before
RanInOrder ==
  \A i \in DOMAIN pool :
    pool[i].pc # "pending" =>
      /\ IsPrefix(pool[i].ran, operators)
      /\ Len(pool[i].ran) = pool[i].op
      /\ pool[i].t = transform_from(pool[i].ran, 0, Picked(i), ctx)

\* the image-loading operator heads the pipeline of an ImageDataGenerator
\* and is the first one run on every sample
LoadImageFirst ==
  gen_cls = "ImageDataGenerator" =>
    /\ operators # <<>> /\ operators[1].cls = "LoadImage"
    /\ \A i \in DOMAIN pool :
         pool[i].ran # <<>> => pool[i].ran[1].cls = "LoadImage"

\* C19: add only appends (the pipeline after a call is the pipeline before
\* it plus the operator, earlier entries unchanged); every sample is passed
\* through all operators of the pipeline in that order, each exactly once,
\* the output triple of one being the input of the next; for
\* ImageDataGenerator the image-loading operator is the first one executed.
C19_AppendOnlyPipeline ==
  /\ [](RanInOrder /\ LoadImageFirst)
  /\ [][/\ IsPrefix(operators, operators')
        /\ Len(operators') <= Len(operators) + 1
        /\ \A i \in DOMAIN pool \cap DOMAIN pool' :
             (pool[i].pc = "running" /\ pool'[i].pc \in {"done", "failed"}) =>
               pool[i].ran = operators]_vars

\* C19 witness: an ImageDataGenerator got two operators added; the sample
\* went through the image loading, then the two in the order they were
\* added (in the opposite order the second would have raised)
C19_Witness ==
  /\ gen_cls = "ImageDataGenerator"
  /\ operators = <<Op("LoadImage", "", 4), Op("CustomOperator", "reject_odd", 4),
                   Op("ProcessInput", "func", 4)>>
  /\ gen_pc = "yielded"
  /\ Len(pool) = 1
  /\ pool[1].ran = operators
  /\ pool[1].t.x = input_func(ctx.X[pool[1].ix + 1])
  /\ raises(operators[2], [pool[1].t EXCEPT !.x = input_func(ctx.X[pool[1].ix + 1])], ctx)

\* C23: once flow has been called the operator list is never mutated: it is
\* still the list that existed when flow was called, and every sample whose
\* work came to its end, in whichever worker, went through exactly that list.
C23_OperatorsFrozenAfterFlow ==
  /\ operators = new_operators(gen_cls)
  /\ \A i \in DOMAIN pool :
       pool[i].pc \in {"done", "failed"} => pool[i].ran = new_operators(gen_cls)

(***************************************************************************)
(* Claims about the sequence adapter                                       *)
(***************************************************************************)
\* C24: the GeneratorSequence built from the stream and the step count that
\* flow returned reports length steps and serves every indexed access with
\* 0 <= index < steps from one cached iterator: an access fails only for an
\* index out of that range, an access that returned holds the batch the
\* stream yielded last, and no second iterator is created.
C24_AdapterServesEveryAccess ==
  (seq.pc # "none" /\ seq.generator = "generator") =>
    /\ seq_len(seq) = Val(flow_steps)
    /\ (seq.pc = "raised" => ~(0 <= seq.index /\ seq.index < seq.steps))
    /\ (seq.pc = "returned" => (yielded /\ seq.ret = Some(batch_indices)))
    /\ seq.created <= 1
    /\ (seq.served > 0 => seq.created = 1)

(***************************************************************************)
(* Claims about profiling                                                  *)
(***************************************************************************)
\* the sum of the times in a sequence of measurements, those of class key
RECURSIVE TimeOf(_, _)
TimeOf(timed, key) ==
  IF timed = <<>> THEN 0
  ELSE (IF Head(timed).key = key THEN Head(timed).elapsed ELSE 0) + TimeOf(Tail(timed), key)

\* the same over the tasks of the batch, from slot k on
RECURSIVE TimeOfPool(_, _)
TimeOfPool(k, key) ==
  IF k > Len(pool) THEN 0 ELSE TimeOf(pool[k].timed, key) + TimeOfPool(k + 1, key)

\* every measurement taken has been added
AllAdded == \A k \in DOMAIN pool : pool[k].pc \notin {"timed", "read"}

\* C25: with profiling enabled, once every execution has added its time, the
\* time accumulated for each operator class name is the sum of the elapsed
\* times of all executions of operators of that class, those of concurrent
\* workers of one batch included.
C25_ProfileSumsAllExecutions ==
  (profile /\ AllAdded) =>
    \A key \in {"ProcessInput", "CustomOperator"} :
      dict_get(profile_data, key) = TimeOfPool(1, key)

(***************************************************************************)
(* Claims about the stream as a whole                                      *)
(***************************************************************************)
\* the triple a worker starts from for slot k, its RandomState in state r
StartOf(k, r) ==
  [x |-> ctx.X[pool[k].ix + 1], y |-> pick(ctx.y, pool[k].ix),
   w |-> pick(ctx.weights, pool[k].ix), rand |-> r]

\* the worker of slot k holds the RandomState built from the seed scheduled
\* for the slot, advanced by the draws of the operators it ran and by nothing
\* else
PrivateRand(k) ==
  /\ pool[k].ix = batch_indices[k]
  /\ pool[k].seed = batch_seeds[k]
  /\ pool[k].pc # "pending" =>
       \E r \in RandomStates(batch_seeds[k]) :
         pool[k].t.rand = transform_from(pool[k].ran, 0, StartOf(k, r), ctx).rand

\* C22: what the scheduler drew from the context's random source (the order
\* of the lap, its seeds, the classes and the indices and seeds of the
\* batch) stands still while the per-sample work of a batch is running, and
\* every worker's draws come from its private RNG, seeded with the seed
\* scheduled for its sample.
C22_ContextRandomOnlyBetweenBatches ==
  /\ [](\A k \in DOMAIN pool : PrivateRand(k))
  /\ [](gen_pc = "running" => yielded)
  /\ [][gen_pc = "running" => UNCHANGED sched_rest]_vars
  /\ [][(seeds' # seeds \/ indices' # indices \/ y_batch' # y_batch) =>
          (gen_pc \in {"idle", "yielded"} /\ gen_pc' = "idle" /\
           \A k \in DOMAIN pool : pool[k].pc = "done")]_vars

\* C22 witness: in the second batch of a shuffled stream a worker whose
\* sample was scheduled with seed 1 passed the gate and drew its jitter
C22_Witness ==
  /\ fb_pc = "shuffled" /\ ctx.batch_size = 1 /\ pos = 2
  /\ gen_pc = "running"
  /\ operators = <<Op("CustomAugmentation", "jitter", 2)>>
  /\ pool[1].ran = operators
  /\ batch_seeds = <<1>> /\ pool[1].seed = 1
  /\ pool[1].t.rand = rand_next(rand_next(1))

\* a request raised, or a later one found the generator finished
Over == gen_pc \in {"raised", "finished"}

\* C30: after a per-sample failure has propagated out of a batch request the
\* stream is finished: no worker takes a step any more, the scheduler is
\* not resumed, and every later request ends in StopIteration without a
\* batch.
C30_FinishedAfterFailure ==
  /\ [](Over => (IsNone(out) /\ \E k \in DOMAIN pool : pool[k].pc \in {"failed", "raised"}))
  /\ [][Over => /\ gen_pc' = "finished"
                /\ IsNone(out')
                /\ pool' = pool
                /\ UNCHANGED sched_rest]_vars

\* C30 witness: the first batch of a shuffled stream was yielded, the sample
\* of the second raised in its operator, and a later request found the
\* stream finished, the batch scheduled last still the failed one
C30_Witness ==
  /\ gen_pc = "finished" /\ IsNone(out)
  /\ fb_pc = "shuffled" /\ ctx.batch_size = 1 /\ pos = 2
  /\ batch_indices = <<0>>
  /\ pool[1].pc = "raised"
  /\ operators = <<Op("CustomOperator", "reject_odd", 4)>>

====
